---------------------------- MODULE Spec2Model ----------------------------
(***************************************************************************)
(* A model of the CallWaitingAI voice gateway (Odiabackend099/cwaai-      *)
(* backend): the fixed-window rate limiter, the Vapi webhook processor    *)
(* with its call/lead/webhook_events tables, the POST /call quota path,    *)
(* the authenticate middleware and the validation prefix of the public    *)
(* POST routes.  Every component has its own next-state relation and      *)
(* specification; the variables of the other components stay unchanged.   *)
(***************************************************************************)
EXTENDS Integers, Sequences, FiniteSets, TLC

VARIABLES
    rateLimitStore,   \* rate-limit.middleware.ts: key -> [count, resetTime]
    now,              \* Date.now(), in milliseconds
    rlHist,           \* history: every decision the limiter has taken
    whReq,            \* webhook.routes: each delivery's position and locals
    calls,            \* table calls: call id -> row
    webhookEvents,    \* table webhook_events, by row id
    leads,            \* table leads, by row id
    telegramSent,     \* messages the Telegram bot has delivered, by kind
    telegramEnabled,  \* TelegramService.enabled
    flutterwaveEnabled, \* FlutterwaveService.enabled
    whFaults,         \* failures of external operations so far (webhook)
    gwReq,            \* each HTTP request's position, locals and response
    profiles,         \* table profiles: user id -> calls_remaining
    quota0,           \* history: table profiles in the initial state
    conversations,    \* table chat_conversations: conversation_id -> row
    applied           \* a pure function, its argument and its result

rlVars == <<rateLimitStore, now, rlHist>>
whVars == <<whReq, calls, webhookEvents, leads, telegramSent,
            telegramEnabled, flutterwaveEnabled, whFaults>>

gwVars == <<gwReq, profiles, quota0, conversations, applied>>

vars == <<rlVars, whVars, gwVars>>

\* undefined / null, for each type of value
None == "none"
NoText == <<"none">>
NoNumber == -1
NoRow == 0

(***************************************************************************)
(* Bounds of the model.                                                    *)
(***************************************************************************)
WindowMs == 1000        \* options.windowMs of the limiter under check
MaxRequests == 3        \* options.maxRequests of the limiter under check
TickMs == 500           \* the clock advances in steps of TickMs
MaxTime == 2000         \* the clock stops here
MaxRlRequests == 5      \* requests the limiter sees in one behaviour
MaxWebhooks == 2        \* webhook deliveries in one behaviour, all concurrent
MaxWhFaults == 2        \* failed external operations in one behaviour
MaxCallReqs == 2        \* concurrent POST /call requests in one behaviour
MaxQuota == 2           \* the largest calls_remaining in the initial state
MaxHistory == 2         \* the longest sentimentHistory of calculateQualificationScore
MaxDemoReqs == 4        \* POST /demo-call requests in one behaviour
MaxDemoOpen == 2        \* POST /demo-call requests in progress at a time
MaxDepth == 2           \* the deepest wrapping of the documents given to sanitizeData

(***************************************************************************)
(* Rate limiter (src/src/middleware/rate-limit.middleware.ts)              *)
(***************************************************************************)

\* Sample requests: x-forwarded-for (already split at ','), x-real-ip and
\* the socket's remote address; None is an absent header.
RlRequests ==
    { [xff |-> <<"ipA", "ipP">>, realIp |-> None,  remote |-> "ipP"],
      [xff |-> <<>>,             realIp |-> "ipA", remote |-> "ipP"],
      [xff |-> <<>>,             realIp |-> None,  remote |-> "ipB"],
      [xff |-> <<>>,             realIp |-> "ipB", remote |-> None] }

\* clientIp: the first forwarded-for value, else x-real-ip, else the socket
\* address, else 'unknown' (an empty string is falsy).
ClientIp(req) ==
    IF Len(req.xff) > 0 /\ req.xff[1] # "" THEN req.xff[1]
    ELSE IF req.realIp # None THEN req.realIp
    ELSE IF req.remote # None THEN req.remote
    ELSE "unknown"

RateKey(req) == <<"rate_limit:", ClientIp(req)>>

\* Math.ceil(ms / 1000) for ms >= 0
CeilSeconds(ms) == (ms + 999) \div 1000

\* The window test of line 50 and of the sweep (line 22): strictly past.
ExpiredLate(entry, t) == entry.resetTime + WindowMs < t
Expired(entry, t) == entry.resetTime < t

\* Lines 50-55: the entry the request counts against.
EntryFor(store, key, t) ==
    IF key \notin DOMAIN store \/ Expired(store[key], t)
    THEN [count |-> 0, resetTime |-> t + WindowMs]
    ELSE store[key]

IsFresh(store, key, t) == key \notin DOMAIN store \/ Expired(store[key], t)

\* Line 58: the count after the request.
NotCounted(entry) == entry
CountedUpToLimit(entry) ==
    [entry EXCEPT !.count = IF @ > MaxRequests THEN @ ELSE @ + 1]
Counted(entry) == [entry EXCEPT !.count = @ + 1]

\* Line 61: the limit test.
LimitExceededOffByOne(entry) == entry.count > MaxRequests + 1
LimitExceeded(entry) == entry.count > MaxRequests

Put(store, key, entry) ==
    [k \in DOMAIN store \cup {key} |-> IF k = key THEN entry ELSE store[k]]

\* The middleware returned by rateLimiter(options): one synchronous run,
\* lines 37-83.
Limiter(req) ==
    /\ Len(rlHist) < MaxRlRequests
    /\ LET key   == RateKey(req)
           entry == Counted(EntryFor(rateLimitStore, key, now))
           over  == LimitExceeded(entry)
       IN /\ rateLimitStore' = Put(rateLimitStore, key, entry)
          /\ rlHist' = Append(rlHist,
                [key        |-> key,
                 t          |-> now,
                 fresh      |-> IsFresh(rateLimitStore, key, now),
                 count      |-> entry.count,
                 resetTime  |-> entry.resetTime,
                 status     |-> IF over THEN 429 ELSE 0,
                 next       |-> ~over,
                 retryAfter |-> IF over THEN CeilSeconds(entry.resetTime - now)
                                ELSE None])

\* A request to a route that has the limiter as its only step.
RateLimit(req) ==
    /\ Limiter(req)
    /\ UNCHANGED <<now, whVars, gwVars>>

\* Lines 19-26: the periodic sweep deletes the expired entries.
Sweep ==
    /\ \E k \in DOMAIN rateLimitStore : Expired(rateLimitStore[k], now)
    /\ rateLimitStore' =
          [k \in {x \in DOMAIN rateLimitStore :
                    ~Expired(rateLimitStore[x], now)} |-> rateLimitStore[k]]
    /\ UNCHANGED <<now, rlHist, whVars, gwVars>>

\* Time passes.
Tick ==
    /\ now + TickMs <= MaxTime
    /\ now' = now + TickMs
    /\ UNCHANGED <<rateLimitStore, rlHist, whVars, gwVars>>

(***************************************************************************)
(* Text: a string is a sequence of one-character strings.                  *)
(***************************************************************************)

LowerLetters == <<"a", "b", "c", "d", "e", "f", "g", "h", "i", "j", "k", "l", "m", "n", "o", "p", "q", "r", "s", "t", "u", "v", "w", "x", "y", "z">>
UpperLetters == <<"A", "B", "C", "D", "E", "F", "G", "H", "I", "J", "K", "L", "M", "N", "O", "P", "Q", "R", "S", "T", "U", "V", "W", "X", "Y", "Z">>
Digits == {"0", "1", "2", "3", "4", "5", "6", "7", "8", "9"}

\* [a-z] under the i flag
IsLetter(c) == \E i \in 1..26 : LowerLetters[i] = c \/ UpperLetters[i] = c
\* \s
IsSpace(c) == c \in {" ", "\t", "\n", "\r"}
\* [a-zA-Z0-9._-]
IsEmailChar(c) == IsLetter(c) \/ c \in Digits \/ c \in {".", "_", "-"}
\* [a-zA-Z0-9_-]
IsTldChar(c) == IsLetter(c) \/ c \in Digits \/ c \in {"_", "-"}

ToLowerChar(c) ==
    IF \E i \in 1..26 : UpperLetters[i] = c
    THEN LowerLetters[CHOOSE i \in 1..26 : UpperLetters[i] = c]
    ELSE c

\* String.prototype.toLowerCase
ToLowerCase(s) == [i \in 1..Len(s) |-> ToLowerChar(s[i])]

\* String.prototype.includes
Includes(s, k) ==
    \E i \in 1..(Len(s) - Len(k) + 1) : SubSeq(s, i, i + Len(k) - 1) = k

\* The end of the longest run of characters satisfying P that starts at i
\* (i - 1 when s[i] does not satisfy P).
RunEnd(s, i, P(_)) ==
    LET ends == { j \in (i - 1)..Len(s) : \A k \in i..j : P(s[k]) }
    IN CHOOSE j \in ends : \A e \in ends : e <= j

\* The start of the longest run of characters satisfying P that ends at i.
RunStart(s, i, P(_)) ==
    LET starts == { j \in 1..(i + 1) : \A k \in j..i : P(s[k]) }
    IN CHOOSE j \in starts : \A e \in starts : j <= e

Min(S) == CHOOSE x \in S : \A y \in S : x <= y
Max(S) == CHOOSE x \in S : \A y \in S : y <= x

(***************************************************************************)
(* Lead extraction (webhook.routes: extractIntent ... extractEmail)        *)
(***************************************************************************)

KwBook == <<"b", "o", "o", "k">>
KwReservation == <<"r", "e", "s", "e", "r", "v", "a", "t", "i", "o", "n">>
KwPrice == <<"p", "r", "i", "c", "e">>
KwCost == <<"c", "o", "s", "t">>
KwHowMuch == <<"h", "o", "w", " ", "m", "u", "c", "h">>
KwInterested == <<"i", "n", "t", "e", "r", "e", "s", "t", "e", "d">>
KwSignUp == <<"s", "i", "g", "n", " ", "u", "p">>
KwSupport == <<"s", "u", "p", "p", "o", "r", "t">>
KwHelp == <<"h", "e", "l", "p">>
KwCancel == <<"c", "a", "n", "c", "e", "l">>
KwRefund == <<"r", "e", "f", "u", "n", "d">>
KwBuy == <<"b", "u", "y">>
KwPurchase == <<"p", "u", "r", "c", "h", "a", "s", "e">>
KwYes == <<"y", "e", "s">>
KwDefinitely == <<"d", "e", "f", "i", "n", "i", "t", "e", "l", "y">>
KwSure == <<"s", "u", "r", "e">>
KwAbsolutely == <<"a", "b", "s", "o", "l", "u", "t", "e", "l", "y">>
KwNo == <<"n", "o">>
KwNotInterested == <<"n", "o", "t", " ", "i", "n", "t", "e", "r", "e", "s", "t", "e", "d">>
KwMaybe == <<"m", "a", "y", "b", "e">>
KwLater == <<"l", "a", "t", "e", "r">>

extractIntent(transcript) ==
    LET lowerTranscript == ToLowerCase(transcript)
        has(k) == Includes(lowerTranscript, k)
    IN IF has(KwBook) \/ has(KwReservation) THEN "booking"
       ELSE IF has(KwPrice) \/ has(KwCost) \/ has(KwHowMuch) THEN "pricing_inquiry"
       ELSE IF has(KwInterested) \/ has(KwSignUp) THEN "service_interest"
       ELSE IF has(KwSupport) \/ has(KwHelp) THEN "support"
       ELSE IF has(KwCancel) \/ has(KwRefund) THEN "cancellation"
       ELSE "general_inquiry"

qualifyingKeywords == {KwInterested, KwSignUp, KwBuy, KwPurchase, KwBook, KwYes}

checkQualification(transcript) ==
    \E keyword \in qualifyingKeywords : Includes(ToLowerCase(transcript), keyword)

positiveKeywords == {KwInterested, KwYes, KwDefinitely, KwSure, KwAbsolutely}
negativeKeywords == {KwNo, KwNotInterested, KwMaybe, KwLater}

\* The confidence in hundredths: 0.5 + 0.1 per positive keyword - 0.15 per
\* negative keyword, clamped to [0, 1].
calculateConfidenceCaseSensitive(transcript) ==
    LET p == Cardinality({k \in positiveKeywords : Includes(transcript, k)})
        n == Cardinality({k \in negativeKeywords : Includes(transcript, k)})
        score == 50 + 10 * p - 15 * n
    IN Max({0, Min({100, score})})
calculateConfidence(transcript) ==
    LET lowerTranscript == ToLowerCase(transcript)
        p == Cardinality({k \in positiveKeywords : Includes(lowerTranscript, k)})
        n == Cardinality({k \in negativeKeywords : Includes(lowerTranscript, k)})
        score == 50 + 10 * p - 15 * n
    IN Max({0, Min({100, score})})

NamePatterns ==
    << <<"m", "y", " ", "n", "a", "m", "e", " ", "i", "s", " ">>,
       <<"i", "'", "m", " ">>,
       <<"t", "h", "i", "s", " ", "i", "s", " ">> >>

\* The positions where /<prefix>([a-z]+(?:\s[a-z]+)?)/i matches.
NameMatches(transcript, prefix) ==
    { i \in 1..(Len(transcript) - Len(prefix)) :
        /\ ToLowerCase(SubSeq(transcript, i, i + Len(prefix) - 1)) = prefix
        /\ IsLetter(transcript[i + Len(prefix)]) }

\* The capture group of the leftmost match: one word, and a second one when
\* a single whitespace character and a letter follow.
NameCapture(transcript, prefix) ==
    LET i  == Min(NameMatches(transcript, prefix))
        a  == i + Len(prefix)
        e1 == RunEnd(transcript, a, IsLetter)
        e2 == IF /\ e1 + 2 <= Len(transcript)
                 /\ IsSpace(transcript[e1 + 1])
                 /\ IsLetter(transcript[e1 + 2])
              THEN RunEnd(transcript, e1 + 2, IsLetter)
              ELSE e1
    IN SubSeq(transcript, a, e2)

\* The first pattern, in order, that matches decides; None is undefined.
extractName(transcript) ==
    LET hits == { n \in 1..Len(NamePatterns) :
                    NameMatches(transcript, NamePatterns[n]) # {} }
    IN IF hits = {} THEN NoText
       ELSE NameCapture(transcript, NamePatterns[Min(hits)])

\* The '@' positions from which the pattern
\* [a-zA-Z0-9._-]+@[a-zA-Z0-9._-]+\.[a-zA-Z0-9_-]+ matches, and the last
\* '.' of the domain that a greedy match with backtracking settles on.
EmailDots(transcript, at) ==
    LET e == RunEnd(transcript, at + 1, IsEmailChar)
    IN { p \in (at + 2)..(e - 1) :
           transcript[p] = "." /\ IsTldChar(transcript[p + 1]) }

EmailAts(transcript) ==
    { at \in 2..Len(transcript) :
        /\ transcript[at] = "@"
        /\ IsEmailChar(transcript[at - 1])
        /\ EmailDots(transcript, at) # {} }

extractEmail(transcript) ==
    IF EmailAts(transcript) = {} THEN NoText
    ELSE LET at == Min(EmailAts(transcript))
             a  == RunStart(transcript, at - 1, IsEmailChar)
             p  == Max(EmailDots(transcript, at))
         IN SubSeq(transcript, a, RunEnd(transcript, p + 1, IsTldChar))

(***************************************************************************)
(* Webhook processor (src/src/routes/logs.routes.ts, lines 572-894) and    *)
(* the services it calls (src/unnamed/part_003, part_004,                  *)
(* src/src/services/telegram.service.ts).                                  *)
(*                                                                         *)
(* Every action is the completion of the operation a delivery awaits,      *)
(* followed by the handler's synchronous code up to its next await.        *)
(***************************************************************************)

WebhookIds == 1..MaxWebhooks

\* Sample transcripts: "My name is Al. a@b.co yes" and "No thanks".
TranscriptA == <<"M", "y", " ", "n", "a", "m", "e", " ", "i", "s", " ", "A", "l", ".", " ", "a", "@", "b", ".", "c", "o", " ", "y", "e", "s">>
TranscriptB == <<"N", "o", " ", "t", "h", "a", "n", "k", "s">>

\* "My name is Al. a@b.co", "this is Al, yes" and "a@b.co yes": a lead that
\* is not qualified, one without an email and one without a name.
TranscriptC == <<"M", "y", " ", "n", "a", "m", "e", " ", "i", "s", " ", "A", "l", ".", " ", "a", "@", "b", ".", "c", "o">>
TranscriptD == <<"t", "h", "i", "s", " ", "i", "s", " ", "A", "l", ",", " ", "y", "e", "s">>
TranscriptE == <<"a", "@", "b", ".", "c", "o", " ", "y", "e", "s">>

\* A call as the provider reports it; cost is in cents.
CallOf(id, userId, transcript, cost, recordingUrl) ==
    [id |-> id, userId |-> userId, transcript |-> transcript, cost |-> cost,
     recordingUrl |-> recordingUrl, number |-> "+15550001"]

\* event.call and event.message when the event carries none
NoCall ==
    [id |-> None, userId |-> None, transcript |-> NoText, cost |-> NoNumber,
     recordingUrl |-> None, number |-> None]
NoMessage == [transcript |-> NoText]

Truthy(text) == text # NoText /\ text # <<>>

\* Sample events (VapiWebhookEvent), by name.
EventNames == {"endedA", "endedB", "endedBare", "endedDemo", "started",
               "failed", "transcript", "hang"}

Event(name) ==
    CASE name = "endedA" ->
           [type |-> "call.ended", message |-> NoMessage,
            call |-> CallOf("c1", "u1", TranscriptA, 5, "rec1")]
      [] name = "endedB" ->
           [type |-> "call.ended", message |-> NoMessage,
            call |-> CallOf("c1", "u1", TranscriptB, 0, "rec2")]
      [] name = "endedBare" ->
           [type |-> "call.ended", message |-> NoMessage,
            call |-> CallOf("c1", "u1", NoText, NoNumber, None)]
      [] name = "endedDemo" ->
           [type |-> "call.ended", message |-> NoMessage,
            call |-> CallOf("c1", None, TranscriptA, 5, "rec1")]
      [] name = "started" ->
           [type |-> "call.started", message |-> NoMessage,
            call |-> CallOf("c1", "u1", NoText, NoNumber, None)]
      [] name = "failed" ->
           [type |-> "call.failed", message |-> NoMessage,
            call |-> CallOf("c1", "u1", NoText, NoNumber, None)]
      [] name = "transcript" ->
           [type |-> "transcript", call |-> NoCall,
            message |-> [transcript |-> TranscriptB]]
      [] name = "hang" ->
           [type |-> "hang", call |-> NoCall, message |-> NoMessage]
      [] name = "endedC" ->
           [type |-> "call.ended", message |-> NoMessage,
            call |-> CallOf("c1", "u1", TranscriptC, 5, "rec1")]
      [] name = "endedD" ->
           [type |-> "call.ended", message |-> NoMessage,
            call |-> CallOf("c1", "u1", TranscriptD, 5, "rec1")]
      [] name = "endedE" ->
           [type |-> "call.ended", message |-> NoMessage,
            call |-> CallOf("c1", "u1", TranscriptE, 5, "rec1")]
      [] name = "startedDemo" ->
           [type |-> "call.started", message |-> NoMessage,
            call |-> CallOf("c1", None, NoText, NoNumber, None)]
      [] name = "failedDemo" ->
           [type |-> "call.failed", message |-> NoMessage,
            call |-> CallOf("c1", None, NoText, NoNumber, None)]
      [] name = "endedNoCall" ->
           [type |-> "call.ended", message |-> NoMessage, call |-> NoCall]

CallIds == {"c1"}

\* The row POST /call saves (call.routes.ts, lines 67-73).
NewCallRow ==
    [status |-> "in_progress", transcript |-> NoText, duration |-> NoNumber,
     audio_url |-> None]

\* Line 691: call.cost ? Math.round((call.cost / 0.01) * 60) : undefined,
\* with the cost in cents.
EstimateDuration(cost) ==
    IF cost = NoNumber \/ cost = 0 THEN NoNumber ELSE cost * 60

\* The updates each handler passes to updateCall; an undefined value is not
\* sent and leaves the column as it is.
CallUpdatesKeepStatus(type, call) ==
    [status |-> None, transcript |-> call.transcript,
     duration |-> EstimateDuration(call.cost), audio_url |-> call.recordingUrl]
CallUpdates(type, call) ==
    CASE type = "call.started" ->
           [status |-> "in_progress", transcript |-> NoText,
            duration |-> NoNumber, audio_url |-> None]
      [] type = "call.ended" ->
           [status |-> "answered", transcript |-> call.transcript,
            duration |-> EstimateDuration(call.cost),
            audio_url |-> call.recordingUrl]
      [] type = "call.failed" ->
           [status |-> "missed", transcript |-> NoText, duration |-> NoNumber,
            audio_url |-> None]

Patch(row, updates) ==
    [status     |-> IF updates.status # None THEN updates.status
                    ELSE row.status,
     transcript |-> IF updates.transcript # NoText THEN updates.transcript
                    ELSE row.transcript,
     duration   |-> IF updates.duration # NoNumber THEN updates.duration
                    ELSE row.duration,
     audio_url  |-> IF updates.audio_url # None THEN updates.audio_url
                    ELSE row.audio_url]

\* supabaseService.updateCall: the rows with that id, when the update
\* succeeds; an error is logged and swallowed.
updateCall(tbl, id, updates, ok) ==
    IF ok /\ id \in DOMAIN tbl THEN [tbl EXCEPT ![id] = Patch(@, updates)]
    ELSE tbl

\* supabaseService.saveWebhookEvent: the inserted row, or null when the
\* insert fails (error and exception are both caught).  The database gives
\* the row a fresh id; the model uses the number of the delivery.
saveWebhookEventThrows(tbl, r, ev, ok) ==
    IF ok
    THEN [rows |-> tbl @@ (r :> [id |-> r, event_type |-> Event(ev).type,
                                  payload |-> ev, processed |-> FALSE,
                                  error_message |-> None, marks |-> 0]),
          saved |-> r, thrown |-> FALSE]
    ELSE [rows |-> tbl, saved |-> NoRow, thrown |-> TRUE]
saveWebhookEvent(tbl, r, ev, ok) ==
    IF ok
    THEN [rows |-> tbl @@ (r :> [id |-> r, event_type |-> Event(ev).type,
                                  payload |-> ev, processed |-> FALSE,
                                  error_message |-> None, marks |-> 0]),
          saved |-> r, thrown |-> FALSE]
    ELSE [rows |-> tbl, saved |-> NoRow, thrown |-> FALSE]

\* supabaseService.markWebhookProcessed: processed = true and
\* error_message = errorMessage || null; a failed update is logged and
\* swallowed.  marks counts the updates the row has received.
markWebhookProcessedDropsError(tbl, id, errorMessage, ok) ==
    IF ok
    THEN [tbl EXCEPT ![id].processed = TRUE, ![id].error_message = None,
                     ![id].marks = @ + 1]
    ELSE tbl
markWebhookProcessed(tbl, id, errorMessage, ok) ==
    IF ok
    THEN [tbl EXCEPT ![id].processed = TRUE,
                     ![id].error_message =
                         IF errorMessage = "" THEN None ELSE errorMessage,
                     ![id].marks = @ + 1]
    ELSE tbl

\* Lines 755-761: what extractAndSaveLead reads out of each sample
\* transcript.
Transcripts ==
    {TranscriptA, TranscriptB, TranscriptC, TranscriptD, TranscriptE}

Extracted ==
    [t \in Transcripts |->
        [intent |-> extractIntent(t), isQualified |-> checkQualification(t),
         confidence |-> calculateConfidence(t), name |-> extractName(t),
         email |-> extractEmail(t)]]

\* The lead extractAndSaveLead inserts (lines 764-773).
LeadOf(userId, callId, transcript, phoneNumber) ==
    [user_id |-> userId, call_id |-> callId,
     name |-> Extracted[transcript].name, email |-> Extracted[transcript].email,
     phone |-> phoneNumber, intent |-> Extracted[transcript].intent,
     is_qualified |-> Extracted[transcript].isQualified,
     confidence_score |-> Extracted[transcript].confidence,
     telegram_notified_at |-> None, flutterwave_payment_link |-> None,
     payment_status |-> None]

\* Line 789: isQualified && name && email
WantsPaymentLinkNever(transcript) == FALSE
WantsPaymentLinkQualifiedOnly(transcript) == Extracted[transcript].isQualified
WantsPaymentLink(transcript) ==
    /\ Extracted[transcript].isQualified
    /\ Truthy(Extracted[transcript].name)
    /\ Truthy(Extracted[transcript].email)

\* An external operation (a database statement, a Telegram send, a payment
\* request) fails, or the handler throws: n such failures in this step.
Faults(n) ==
    /\ whFaults + n <= MaxWhFaults
    /\ whFaults' = whFaults + n

Fails(b) == IF b THEN 1 ELSE 0

IdleReq ==
    [pc |-> "idle", ev |-> None, saved |-> NoRow, err |-> None, lead |-> NoRow,
     markCalls |-> 0, status |-> 0, body |-> [error |-> None]]

Sent(kind) == [telegramSent EXCEPT ![kind] = @ + 1]

\* The handler's code after the event is saved: dispatch on the type, the
\* early returns of the call handlers, up to the first await.
AfterSavePcAnyCall(ev) ==
    LET e == Event(ev)
    IN IF e.type \in {"call.ended", "call.started", "call.failed"}
       THEN IF e.call = NoCall THEN "mark" ELSE "updateCall"
       ELSE "mark"
AfterSavePc(ev) ==
    LET e == Event(ev)
    IN IF e.type \in {"call.ended", "call.started", "call.failed"}
       THEN IF e.call = NoCall \/ e.call.userId = None THEN "mark"
            ELSE "updateCall"
       ELSE "mark"

\* The handler's code after updateCall has returned.
AfterUpdatePc(ev) ==
    LET e == Event(ev)
    IN CASE e.type = "call.started" -> "mark"
         [] e.type = "call.ended" ->
              IF Truthy(e.call.transcript) THEN "saveLead" ELSE "mark"
         [] e.type = "call.failed" ->
              IF telegramEnabled THEN "notifyError" ELSE "mark"

\* Line 589: a delivery arrives; the handler logs the type and awaits
\* saveWebhookEvent.  Deliveries are numbered in their order of arrival.
WhReceive(r, ev) ==
    /\ whReq[r].pc = "idle"
    /\ \A q \in WebhookIds : q < r => whReq[q].pc # "idle"
    /\ whReq' = [whReq EXCEPT ![r].pc = "save", ![r].ev = ev]
    /\ UNCHANGED <<calls, webhookEvents, leads, telegramSent, telegramEnabled,
                   flutterwaveEnabled, rlVars, gwVars>>
    /\ Faults(0)

\* Lines 596-623: the insert has returned; the handler is entered.  An
\* exception raised in the handler is caught at line 631.
WhSaveDone(r, ok, throws) ==
    /\ whReq[r].pc = "save"
    /\ LET s == saveWebhookEvent(webhookEvents, r, whReq[r].ev, ok)
       IN /\ webhookEvents' = s.rows
          /\ whReq' =
               IF s.thrown
               THEN [whReq EXCEPT ![r].pc = "done", ![r].status = 500,
                                  ![r].body = [error |-> "Webhook Processing Failed"]]
               ELSE IF throws
               THEN [whReq EXCEPT ![r].pc = "mark", ![r].saved = s.saved,
                                  ![r].err = "handler error"]
               ELSE [whReq EXCEPT ![r].pc = AfterSavePc(whReq[r].ev),
                                  ![r].saved = s.saved]
    /\ UNCHANGED <<calls, leads, telegramSent, telegramEnabled,
                   flutterwaveEnabled, rlVars, gwVars>>
    /\ Faults(Fails(~ok) + Fails(throws))

\* handleCallStarted / handleCallEnded / handleCallFailed: updateCall has
\* returned.
WhUpdateCallDone(r, ok, throws) ==
    /\ whReq[r].pc = "updateCall"
    /\ LET e == Event(whReq[r].ev)
       IN calls' = updateCall(calls, e.call.id, CallUpdates(e.type, e.call), ok)
    /\ whReq' =
         IF throws
         THEN [whReq EXCEPT ![r].pc = "mark", ![r].err = "handler error"]
         ELSE [whReq EXCEPT ![r].pc = AfterUpdatePc(whReq[r].ev)]
    /\ UNCHANGED <<webhookEvents, leads, telegramSent, telegramEnabled,
                   flutterwaveEnabled, rlVars, gwVars>>
    /\ Faults(Fails(~ok) + Fails(throws))

\* handleCallFailed, lines 725-728: telegramService.notifyError has
\* returned; a failed send is caught inside it.
WhNotifyErrorDone(r, ok) ==
    /\ whReq[r].pc = "notifyError"
    /\ telegramSent' = IF ok THEN Sent("error") ELSE telegramSent
    /\ whReq' = [whReq EXCEPT ![r].pc = "mark"]
    /\ UNCHANGED <<calls, webhookEvents, leads, telegramEnabled,
                   flutterwaveEnabled, rlVars, gwVars>>
    /\ Faults(Fails(~ok))

\* extractAndSaveLead, lines 755-783: saveLead has returned.
WhSaveLeadDone(r, ok) ==
    /\ whReq[r].pc = "saveLead"
    /\ LET call == Event(whReq[r].ev).call
       IN IF ok
          THEN /\ leads' = leads @@ (r :> LeadOf(call.userId, call.id,
                                                  call.transcript, call.number))
               /\ whReq' = [whReq EXCEPT
                     ![r].lead = r,
                     ![r].pc = IF telegramEnabled THEN "notifyLead"
                               ELSE "markNotified"]
          ELSE /\ leads' = leads
               /\ whReq' = [whReq EXCEPT ![r].pc = "mark"]
    /\ UNCHANGED <<calls, webhookEvents, telegramSent, telegramEnabled,
                   flutterwaveEnabled, rlVars, gwVars>>
    /\ Faults(Fails(~ok))

\* Line 783: telegramService.notifyNewLead has returned true or false.
WhNotifyLeadDone(r, ok) ==
    /\ whReq[r].pc = "notifyLead"
    /\ telegramSent' = IF ok THEN Sent("lead") ELSE telegramSent
    /\ whReq' = [whReq EXCEPT ![r].pc = "markNotified"]
    /\ UNCHANGED <<calls, webhookEvents, leads, telegramEnabled,
                   flutterwaveEnabled, rlVars, gwVars>>
    /\ Faults(Fails(~ok))

\* Lines 786-795: markLeadNotified has returned.
WhMarkNotifiedDone(r, ok) ==
    /\ whReq[r].pc = "markNotified"
    /\ leads' = IF ok
                THEN [leads EXCEPT ![whReq[r].lead].telegram_notified_at = "now"]
                ELSE leads
    /\ whReq' = [whReq EXCEPT ![r].pc =
          IF WantsPaymentLink(Event(whReq[r].ev).call.transcript)
             /\ flutterwaveEnabled
          THEN "paymentLink" ELSE "mark"]
    /\ UNCHANGED <<calls, webhookEvents, telegramSent, telegramEnabled,
                   flutterwaveEnabled, rlVars, gwVars>>
    /\ Faults(Fails(~ok))

\* Lines 790-798: generateLeadPaymentLink has returned a link or null.
WhPaymentLinkDone(r, ok) ==
    /\ whReq[r].pc = "paymentLink"
    /\ whReq' = [whReq EXCEPT ![r].pc = IF ok THEN "updatePayment" ELSE "mark"]
    /\ UNCHANGED <<calls, webhookEvents, leads, telegramSent, telegramEnabled,
                   flutterwaveEnabled, rlVars, gwVars>>
    /\ Faults(Fails(~ok))

\* Lines 798-799: updateLeadPayment has returned.
WhUpdatePaymentDone(r, ok) ==
    /\ whReq[r].pc = "updatePayment"
    /\ leads' = IF ok
                THEN [leads EXCEPT
                        ![whReq[r].lead].flutterwave_payment_link = "link",
                        ![whReq[r].lead].payment_status = "pending"]
                ELSE leads
    /\ whReq' = [whReq EXCEPT ![r].pc =
                    IF telegramEnabled THEN "notifyPayment" ELSE "mark"]
    /\ UNCHANGED <<calls, webhookEvents, telegramSent, telegramEnabled,
                   flutterwaveEnabled, rlVars, gwVars>>
    /\ Faults(Fails(~ok))

\* Line 799: telegramService.notifyPaymentLink has returned.
WhNotifyPaymentDone(r, ok) ==
    /\ whReq[r].pc = "notifyPayment"
    /\ telegramSent' = IF ok THEN Sent("payment") ELSE telegramSent
    /\ whReq' = [whReq EXCEPT ![r].pc = "mark"]
    /\ UNCHANGED <<calls, webhookEvents, leads, telegramEnabled,
                   flutterwaveEnabled, rlVars, gwVars>>
    /\ Faults(Fails(~ok))

\* Lines 625-641: the event is marked processed, when it was saved, and the
\* response is sent.
WebhookBody(err) == [success |-> TRUE, received |-> TRUE, error |-> err]

WhMarkDone(r, ok) ==
    /\ whReq[r].pc = "mark"
    /\ whReq[r].saved = NoRow => ok
    /\ webhookEvents' =
         IF whReq[r].saved # NoRow
         THEN markWebhookProcessed(webhookEvents, whReq[r].saved, whReq[r].err, ok)
         ELSE webhookEvents
    /\ whReq' = [whReq EXCEPT ![r].pc = "done", ![r].status = 200,
                              ![r].markCalls =
                                  IF whReq[r].saved # NoRow THEN @ + 1 ELSE @,
                              ![r].body = WebhookBody(whReq[r].err)]
    /\ UNCHANGED <<calls, leads, telegramSent, telegramEnabled,
                   flutterwaveEnabled, rlVars, gwVars>>
    /\ Faults(Fails(~ok))

WhInit ==
    /\ whReq = [r \in WebhookIds |-> IdleReq]
    /\ calls = [c \in CallIds |-> NewCallRow]
    /\ webhookEvents = << >>
    /\ leads = << >>
    /\ telegramSent = [k \in {"lead", "payment", "error"} |-> 0]
    /\ telegramEnabled \in BOOLEAN
    /\ flutterwaveEnabled \in BOOLEAN
    /\ whFaults = 0

WhNext ==
    \E r \in WebhookIds :
        \/ \E ev \in EventNames : WhReceive(r, ev)
        \/ \E ok \in BOOLEAN, throws \in BOOLEAN : WhSaveDone(r, ok, throws)
        \/ \E ok \in BOOLEAN, throws \in BOOLEAN : WhUpdateCallDone(r, ok, throws)
        \/ \E ok \in BOOLEAN : WhNotifyErrorDone(r, ok)
        \/ \E ok \in BOOLEAN : WhSaveLeadDone(r, ok)
        \/ \E ok \in BOOLEAN : WhNotifyLeadDone(r, ok)
        \/ \E ok \in BOOLEAN : WhMarkNotifiedDone(r, ok)
        \/ \E ok \in BOOLEAN : WhPaymentLinkDone(r, ok)
        \/ \E ok \in BOOLEAN : WhUpdatePaymentDone(r, ok)
        \/ \E ok \in BOOLEAN : WhNotifyPaymentDone(r, ok)
        \/ \E ok \in BOOLEAN : WhMarkDone(r, ok)

RlInit ==
    /\ rateLimitStore = << >>
    /\ now = 0
    /\ rlHist = << >>

(***************************************************************************)
(* HTTP gateway: authenticate, POST /call and its quota, and the public    *)
(* POST routes (auth.middleware.ts, call.routes.ts, assistant.routes.ts,   *)
(* logs.routes.ts, demo-call.routes.ts)                                    *)
(***************************************************************************)

GwIds == 1..MaxCallReqs

\* Routes that name authenticate as their middleware, and the public ones.
GuardedRoutes ==
    {"POST /call", "GET /call/:callId", "GET /calls",
     "GET /assistant/:id", "POST /assistant", "PATCH /assistant/:id",
     "DELETE /assistant/:id", "GET /logs", "GET /leads", "GET /leads/:id",
     "PATCH /leads/:id"}
PublicRoutes == {"POST /leads", "POST /chat", "POST /demo-call"}

\* 'Bearer ' and sample Authorization headers; NoText is an absent header.
Bearer == <<"B", "e", "a", "r", "e", "r", " ">>
AuthHeaders ==
    { NoText, << >>, Bearer,
      <<"B", "a", "s", "i", "c", " ", "t", "1">>,
      <<"b", "e", "a", "r", "e", "r", " ", "t", "1">>,
      <<"B", "e", "a", "r", "e", "r", "t", "1">>,
      Bearer \o <<"t", "1">>, Bearer \o <<"t", "2">>, Bearer \o <<"t", "9">>,
      Bearer \o Bearer \o <<"t", "1">> }

\* String.prototype.startsWith
StartsWith(s, p) == Len(s) >= Len(p) /\ SubSeq(s, 1, Len(p)) = p

\* String.prototype.replace(p, ''): the first occurrence of p is removed.
ReplaceFirst(s, p) ==
    LET hits == { i \in 1..(Len(s) - Len(p) + 1) :
                    SubSeq(s, i, i + Len(p) - 1) = p }
    IN IF hits = {} THEN s
       ELSE SubSeq(s, 1, Min(hits) - 1) \o
            SubSeq(s, Min(hits) + Len(p), Len(s))

\* The identity provider: the user a token belongs to, None for a token it
\* does not know.
TokenUser(token) ==
    IF token = <<"t", "1">> THEN "u1"
    ELSE IF token = <<"t", "2">> THEN "u2"
    ELSE None

\* verifyUserToken: the user, or null on an error, no user or an exception.
verifyUserTokenFailOpen(token, reachable) ==
    IF reachable THEN TokenUser(token) ELSE "u1"
verifyUserToken(token, reachable) ==
    IF reachable THEN TokenUser(token) ELSE None

\* A request body; None and NoText are absent fields.  customer?.number
\* reads an absent customer as an absent number.
EmptyBody ==
    [assistantId |-> None, number |-> None, name |-> None, model |-> None,
     voice |-> None, email |-> NoText, source |-> None, message |-> NoText,
     conversationId |-> None, phoneNumber |-> NoText, honeypot |-> None]

\* Sample bodies of each route.
Bodies(route) ==
    CASE route = "POST /call" ->
           { [EmptyBody EXCEPT !.assistantId = a, !.number = n] :
               a \in {None, "", "a1"}, n \in {None, "", "+1"} }
      [] route = "POST /assistant" ->
           { [EmptyBody EXCEPT !.name = n, !.model = m, !.voice = v] :
               n \in {None, "n1"}, m \in {None, "m1"}, v \in {None, "v1"} }
      [] route = "POST /leads" ->
           { [EmptyBody EXCEPT !.name = n, !.email = e, !.source = s] :
               n \in {None, "Al"},
               e \in { NoText, << >>, <<"a", "@", "b", ".", "c", "o">>,
                       <<"a", "@", "b">>, <<"a", " ", "@", "b", ".", "c">>,
                       <<"a", "@", "b", ".">>, <<"@", "b", ".", "c">> },
               s \in {None, "ai_widget"} }
      [] route = "POST /chat" ->
           { [EmptyBody EXCEPT !.message = m, !.conversationId = c] :
               m \in {NoText, << >>, <<"h", "i">>}, c \in {None, "k1"} }
      [] route = "POST /demo-call" ->
           { [EmptyBody EXCEPT !.phoneNumber = p, !.honeypot = h] :
               p \in { NoText, << >>,
                       <<"+", "1", "4", "1", "5", "5", "5", "5">>,
                       <<"(", "1", "4", "1", ")", " ", "5", "5", "-", "5", "5">>,
                       <<"0", "1", "4", "1", "5", "5", "5", "5">>,
                       <<"+", "1", "4", "1", "5">>,
                       <<"+", "1", "4", "1", "5", "x", "5", "5">> },
               h \in {None, "", "bot"} }
      [] OTHER -> {EmptyBody}

\* !x for a string field
Falsy(x) == x = None \/ x = ""

\* /^[^\s@]+@[^\s@]+\.[^\s@]+$/.test(email)
EmailOk(email) ==
    \E at \in 2..Len(email), dot \in 4..(Len(email) - 1) :
        /\ at + 1 < dot
        /\ email[at] = "@"
        /\ email[dot] = "."
        /\ \A k \in 1..Len(email) :
              k # at => ~IsSpace(email[k]) /\ email[k] # "@"

\* phoneNumber.replace(/[\s\-\(\)]/g, '')
CleanPhone(phoneNumber) ==
    LET kept(c) == ~IsSpace(c) /\ c \notin {"-", "(", ")"}
    IN SelectSeq(phoneNumber, kept)

\* /^\+?[1-9]\d{6,14}$/.test(cleanedPhone)
PhoneOk(cleanedPhone) ==
    LET d == IF Len(cleanedPhone) > 0 /\ cleanedPhone[1] = "+"
             THEN Tail(cleanedPhone) ELSE cleanedPhone
    IN /\ Len(d) \in 7..15
       /\ d[1] \in Digits \ {"0"}
       /\ \A k \in 2..Len(d) : d[k] \in Digits

\* The handlers' validation: TRUE when no 400 is answered.
BodyValidLoose(route, body) == TRUE
BodyValid(route, body) ==
    CASE route = "POST /call" ->
           ~(Falsy(body.assistantId) \/ Falsy(body.number))
      [] route = "POST /assistant" ->
           ~(Falsy(body.name) \/ Falsy(body.model) \/ Falsy(body.voice))
      [] route = "POST /leads" ->
           /\ ~(Falsy(body.name) \/ ~Truthy(body.email))
           /\ EmailOk(body.email)
      [] route = "POST /chat" -> Truthy(body.message)
      [] route = "POST /demo-call" ->
           /\ Falsy(body.honeypot)
           /\ Truthy(body.phoneNumber)
           /\ PhoneOk(CleanPhone(body.phoneNumber))
      [] OTHER -> TRUE

\* callsRemaining <= 0
QuotaExhaustedStrict(callsRemaining) == callsRemaining < 0
QuotaExhausted(callsRemaining) == callsRemaining <= 0

\* error.response?.status || 500; 0 is an error without a response.
ErrorStatus(outcome) == IF outcome = 0 THEN 500 ELSE outcome

\* The catch block of POST /demo-call.
DemoErrorStatus(outcome) ==
    IF outcome = 400 THEN 400 ELSE IF outcome = 429 THEN 429 ELSE 500

\* The outcomes of a request to the voice provider: 200, no response, or
\* an error status.
ProviderOutcomes == {200, 0, 400, 401, 429, 503}

\* The database function decrement_calls_remaining(user_id_param).
decrement_calls_remaining(table, user) == [table EXCEPT ![user] = @ - 1]

(***************************************************************************)
(* Classifier and scorer (openai.service.ts)                               *)
(***************************************************************************)

\* Scores and weights are counted in hundredths.  NaN is the number that
\* Math.max and Math.min return for an operand that is not a number.
NaN == -1000

MathMax(a, b) == IF a = NaN \/ b = NaN THEN NaN ELSE IF a > b THEN a ELSE b
MathMin(a, b) == IF a = NaN \/ b = NaN THEN NaN ELSE IF a < b THEN a ELSE b

Intents == {"information", "demo", "pricing", "support", "purchase", "general"}
Urgencies == {"low", "medium", "high"}

\* The value analyzeSentiment returns from its catch block.
DefaultSentiment ==
    [score |-> 50, intent |-> "general", urgency |-> "medium", keywords |-> << >>]

\* The decoded reply: NoNumber, None and NoText are fields that are absent
\* or null; a score of NaN is a value that is no number, such as "high";
\* keywords of NoText are also a value that is no array.
EmptyAnalysis ==
    [score |-> NoNumber, intent |-> None, urgency |-> None, keywords |-> NoText]

\* analyzeSentiment, lines 243-249: "Validate and set defaults".
ValidateAnalysis(analysis) ==
    [score |-> MathMin(MathMax(IF analysis.score \in {NoNumber, 0} THEN 50
                               ELSE analysis.score, 0), 100),
     intent |-> IF analysis.intent \in Intents THEN analysis.intent
                ELSE "general",
     urgency |-> IF analysis.urgency \in Urgencies THEN analysis.urgency
                 ELSE "medium",
     keywords |-> IF analysis.keywords # NoText THEN analysis.keywords
                  ELSE << >>]

\* What the completion request of line 223 comes to: it "throws" (an API
\* error, a timeout, or the read of this.client, a property the class never
\* assigns), or it returns a reply that is "empty", that holds no braces
\* ("noJson"), whose text from the first brace to the last does not decode
\* ("badJson"), or that decodes to an object ("json").
Completion(kind, analysis) == [kind |-> kind, analysis |-> analysis]

\* analyzeSentiment, lines 209-262.
analyzeSentiment(completion) ==
    CASE completion.kind = "throws" -> DefaultSentiment
      [] completion.kind = "noJson" -> DefaultSentiment
      [] completion.kind = "badJson" -> DefaultSentiment
      [] completion.kind = "empty" -> ValidateAnalysis(EmptyAnalysis)
      [] completion.kind = "json" -> ValidateAnalysis(completion.analysis)

\* calculateQualificationScore, lines 277-291: the weights, and the 0.5 of
\* a name that has none.
intentScores(intent) ==
    CASE intent = "purchase" -> 100
      [] intent = "demo" -> 90
      [] intent = "pricing" -> 80
      [] intent = "information" -> 60
      [] intent = "support" -> 50
      [] intent = "general" -> 40
      [] OTHER -> 50
urgencyScores(urgency) ==
    CASE urgency = "high" -> 100
      [] urgency = "medium" -> 60
      [] urgency = "low" -> 30
      [] OTHER -> 50

Range(s) == {s[k] : k \in DOMAIN s}

\* reduce((sum, s) => sum + f(s), 0) over the history.
RECURSIVE SumOver(_, _)
SumOver(f, history) ==
    IF history = << >> THEN 0
    ELSE LET rest == SumOver(f, Tail(history))
             x == f[Head(history)]
         IN IF rest = NaN \/ x = NaN THEN NaN ELSE x + rest

\* A score is the fraction num / den of thousandths; Ratio keeps whole
\* numbers of thousandths at den = 1.
Ratio(num, den) ==
    IF num = NaN THEN [num |-> NaN, den |-> 1]
    ELSE IF num % den = 0 THEN [num |-> num \div den, den |-> 1]
    ELSE [num |-> num, den |-> den]

\* calculateQualificationScore, lines 267-301.
calculateQualificationScoreIntentOnly(sentimentHistory) ==
    LET n == Len(sentimentHistory)
        i == SumOver([s \in Range(sentimentHistory) |-> intentScores(s.intent)],
                     sentimentHistory)
    IN IF n = 0 THEN Ratio(500, 1) ELSE Ratio(10 * i, n)
calculateQualificationScore(sentimentHistory) ==
    LET n == Len(sentimentHistory)
        sc == SumOver([s \in Range(sentimentHistory) |-> s.score],
                      sentimentHistory)
        i == SumOver([s \in Range(sentimentHistory) |-> intentScores(s.intent)],
                     sentimentHistory)
        u == SumOver([s \in Range(sentimentHistory) |-> urgencyScores(s.urgency)],
                     sentimentHistory)
        score == IF sc = NaN THEN NaN ELSE 3 * sc + 5 * i + 2 * u
    IN IF n = 0 THEN Ratio(500, 1)
       ELSE IF score = NaN THEN Ratio(NaN, 1)
       ELSE IF score < 0 THEN Ratio(0, 1)
       ELSE IF score > 1000 * n THEN Ratio(1000, 1)
       ELSE Ratio(score, n)

(***************************************************************************)
(* Conversation store (table chat_conversations)                           *)
(***************************************************************************)

\* conv_${Date.now()}_${random}: an id no request has supplied and no other
\* request has drawn.
FreshConvId(r) == "conv_" \o ToString(r)
ConvIds == {"k1"} \cup {FreshConvId(r) : r \in GwIds}

\* No row of the table has the id.
NoConversation ==
    [stored |-> FALSE, messages |-> << >>, message_count |-> 0,
     sentiment_score |-> 50, intent |-> "general", urgency |-> "medium",
     keywords |-> << >>]

\* supabase.getChatConversation(conversationId): the row, or not found.
getChatConversation(table, conversationId) == table[conversationId]

\* supabase.upsertChatConversation(conversationData): the row of that id is
\* replaced, or created.
upsertChatConversation(table, conversationData) ==
    [table EXCEPT ![conversationData.conversation_id] =
        [stored |-> TRUE,
         messages |-> conversationData.messages,
         message_count |-> conversationData.message_count,
         sentiment_score |-> conversationData.sentiment_score,
         intent |-> conversationData.intent,
         urgency |-> conversationData.urgency,
         keywords |-> conversationData.keywords]]

\* No qualification score yet.
NoScore == [num |-> NoNumber, den |-> 1]

\* Replies of getChatResponse.
Replies == {<<"o", "k">>, <<"h", "m">>}

\* Sample outcomes of the completion request of analyzeSentiment.
SentimentOutcomes ==
    { Completion("throws", EmptyAnalysis),
      Completion("json", [score |-> 90, intent |-> "purchase",
                          urgency |-> "high", keywords |-> <<"buy">>]),
      Completion("json", [score |-> 20, intent |-> "support",
                          urgency |-> "low", keywords |-> NoText]),
      Completion("json", [score |-> NaN, intent |-> "spam",
                          urgency |-> None, keywords |-> << >>]) }

IdleGw ==
    [pc |-> "idle", route |-> None, hdr |-> NoText, body |-> EmptyBody,
     user |-> None, quotaRead |-> FALSE, callsRemaining |-> 0,
     reported |-> NoNumber, ran |-> FALSE, effects |-> {}, failed |-> {},
     history |-> << >>, aiResponse |-> NoText, sentiment |-> EmptyAnalysis,
     messageCount |-> 0, qualificationScore |-> NoScore,
     status |-> 0, by |-> None]

\* res.status(status).json(...): the request is answered.
Answer(q, status, by) == [q EXCEPT !.pc = "done", !.status = status, !.by = by]

\* The first await of a handler whose validation has passed.
FirstAwait(route, body) ==
    CASE route = "POST /call" -> "quota"
      [] route = "POST /assistant" -> "createAssistant"
      [] route = "POST /leads" -> "saveLead"
      [] route = "POST /chat" ->
           IF Falsy(body.conversationId) THEN "chatResponse" ELSE "chatHistory"
      [] route = "POST /demo-call" -> "demoInitiate"
      [] OTHER -> "handler"

\* What the handler has asked for when it reaches its first await.
FirstEffects(route, body) ==
    CASE route \in {"POST /assistant", "POST /demo-call"} -> {"provider"}
      [] route = "POST /chat" /\ Falsy(body.conversationId) -> {"llm"}
      [] OTHER -> {}

\* The route handler from its start to its first await or its 400.
Enter(q) ==
    LET h == [q EXCEPT !.ran = TRUE]
    IN IF ~BodyValid(q.route, q.body) THEN Answer(h, 400, "validation")
       ELSE [h EXCEPT !.pc = FirstAwait(q.route, q.body),
                      !.effects = FirstEffects(q.route, q.body)]

\* A request arrives.  authenticate answers 401 to a missing header or one
\* that does not start with 'Bearer ', else awaits verifyUserToken; the
\* limiter of POST /demo-call answers 429; a public handler starts at once.
\* Requests are numbered in their order of arrival.
Received(idle, route, hdr, body, admitted) ==
    LET q == [idle EXCEPT !.route = route, !.hdr = hdr, !.body = body]
    IN IF route \in GuardedRoutes
       THEN IF ~Truthy(hdr) \/ ~StartsWith(hdr, Bearer)
            THEN Answer(q, 401, "auth")
            ELSE [q EXCEPT !.pc = "verify"]
       ELSE IF route = "POST /demo-call" /\ ~admitted
            THEN Answer(q, 429, "limiter")
            ELSE Enter(q)

GwReceive(r, route, hdr, body, admitted) ==
    /\ gwReq[r].pc = "idle"
    /\ \A q \in GwIds : q < r => gwReq[q].pc # "idle"
    /\ gwReq' = [gwReq EXCEPT ![r] = Received(@, route, hdr, body, admitted)]
    /\ UNCHANGED <<profiles, quota0, conversations, applied, rlVars, whVars>>

\* POST /demo-call, demo-call.routes.ts line 30: demoCallRateLimiter runs
\* first and either answers 429 or calls next(), which starts the handler;
\* both happen in the turn in which the request arrives.  At most
\* MaxDemoOpen requests are in progress at a time.
InProgress == { r \in DOMAIN gwReq : gwReq[r].pc \notin {"idle", "done"} }

DemoReceive(r, req, body) ==
    /\ r \in DOMAIN gwReq
    /\ Cardinality(InProgress) < MaxDemoOpen
    /\ gwReq[r].pc = "idle"
    /\ \A q \in DOMAIN gwReq : q < r => gwReq[q].pc # "idle"
    /\ Limiter(req)
    /\ gwReq' = [gwReq EXCEPT ![r] =
          Received(@, "POST /demo-call", NoText, body, rlHist'[Len(rlHist')].next)]
    /\ UNCHANGED <<now, profiles, quota0, conversations, applied, whVars>>

\* authenticate, lines 36-53: verifyUserToken has returned.
GwVerifyDone(r, reachable) ==
    /\ gwReq[r].pc = "verify"
    /\ LET user == verifyUserToken(ReplaceFirst(gwReq[r].hdr, Bearer), reachable)
       IN gwReq' = [gwReq EXCEPT ![r] =
             IF user = None THEN Answer(@, 401, "auth")
             ELSE Enter([@ EXCEPT !.user = user])]
    /\ UNCHANGED <<profiles, quota0, conversations, applied, rlVars, whVars>>

\* POST /call, lines 33-64: getUserCallsRemaining has returned (null when
\* the query fails); with quota left the provider is asked for the call.
CallQuotaDone(r, ok) ==
    /\ gwReq[r].pc = "quota"
    /\ LET callsRemaining == profiles[gwReq[r].user]
       IN gwReq' = [gwReq EXCEPT ![r] =
             IF ~ok THEN Answer(@, 500, "internal")
             ELSE IF QuotaExhausted(callsRemaining)
                  THEN Answer([@ EXCEPT !.quotaRead = TRUE,
                                        !.callsRemaining = callsRemaining],
                              403, "quota")
                  ELSE [@ EXCEPT !.quotaRead = TRUE,
                                 !.callsRemaining = callsRemaining,
                                 !.pc = "initiate",
                                 !.effects = @ \cup {"provider"}]]
    /\ UNCHANGED <<profiles, quota0, conversations, applied, rlVars, whVars>>

\* POST /call, lines 64-73 and 85-92: initiateCall has returned or thrown.
CallInitiateDone(r, outcome) ==
    /\ gwReq[r].pc = "initiate"
    /\ gwReq' = [gwReq EXCEPT ![r] =
          IF outcome = 200 THEN [@ EXCEPT !.pc = "saveCall"]
          ELSE Answer(@, ErrorStatus(outcome), "provider")]
    /\ UNCHANGED <<profiles, quota0, conversations, applied, rlVars, whVars>>

\* POST /call, lines 67-76: saveCall has returned (null when it fails).
CallSaveDone(r, ok) ==
    /\ gwReq[r].pc = "saveCall"
    /\ gwReq' = [gwReq EXCEPT ![r].pc = "decrement",
                              ![r].effects = IF ok THEN @ \cup {"call"} ELSE @]
    /\ UNCHANGED <<profiles, quota0, conversations, applied, rlVars, whVars>>

\* POST /call, lines 76-84: decrementUserCalls has returned (false when the
\* rpc fails); its result is not read.
CallDecrementDone(r, ok) ==
    /\ gwReq[r].pc = "decrement"
    /\ profiles' = IF ok THEN decrement_calls_remaining(profiles, gwReq[r].user)
                   ELSE profiles
    /\ gwReq' = [gwReq EXCEPT ![r] =
          Answer([@ EXCEPT !.reported = gwReq[r].callsRemaining - 1,
                           !.effects = IF ok THEN @ \cup {"quota"} ELSE @],
                 200, "ok")]
    /\ UNCHANGED <<quota0, conversations, applied, rlVars, whVars>>

\* POST /assistant, lines 53-69: createAssistant has returned or thrown.
AssistantCreateDone(r, outcome) ==
    /\ gwReq[r].pc = "createAssistant"
    /\ gwReq' = [gwReq EXCEPT ![r] =
          IF outcome = 200 THEN Answer(@, 201, "ok")
          ELSE Answer(@, ErrorStatus(outcome), "provider")]
    /\ UNCHANGED <<profiles, quota0, conversations, applied, rlVars, whVars>>

\* The other guarded handlers (reads, updates and deletes).
GwHandlerDone(r, status) ==
    /\ gwReq[r].pc = "handler"
    /\ gwReq' = [gwReq EXCEPT ![r] = Answer(@, status, "ok")]
    /\ UNCHANGED <<profiles, quota0, conversations, applied, rlVars, whVars>>

\* POST /leads, lines 416-445: saveLead has returned (null when it fails);
\* then the Telegram message is attempted.
LeadSaveDoneFireAndForget(r, ok) ==
    /\ gwReq[r].pc = "saveLead"
    /\ gwReq' = [gwReq EXCEPT ![r] =
          IF ~ok THEN Answer(@, 500, "internal")
          ELSE Answer([@ EXCEPT !.effects = @ \cup {"lead", "notify"}], 201, "ok")]
    /\ UNCHANGED <<profiles, quota0, conversations, applied, rlVars, whVars>>
LeadSaveDone(r, ok) ==
    /\ gwReq[r].pc = "saveLead"
    /\ gwReq' = [gwReq EXCEPT ![r] =
          IF ~ok THEN Answer(@, 500, "internal")
          ELSE [@ EXCEPT !.pc = "notifyLead",
                         !.effects = @ \cup {"lead", "notify"}]]
    /\ UNCHANGED <<profiles, quota0, conversations, applied, rlVars, whVars>>

\* POST /leads, lines 445-472: the notification is over (sent, or failed and
\* caught); a lead of the widget or the pricing page gets a payment link.
LeadNotifyDone(r, ok) ==
    /\ gwReq[r].pc = "notifyLead"
    /\ gwReq' = [gwReq EXCEPT ![r] =
          LET q == [@ EXCEPT !.failed = IF ok THEN @ ELSE @ \cup {"notify"}]
          IN IF q.body.source \in {"ai_widget", "pricing_page"}
             THEN [q EXCEPT !.pc = "paymentLink",
                            !.effects = @ \cup {"paymentLink"}]
             ELSE Answer(q, 201, "ok")]
    /\ UNCHANGED <<profiles, quota0, conversations, applied, rlVars, whVars>>

\* POST /leads, lines 462-477: generatePaymentLink has returned (null, or an
\* exception that is caught, when it fails).
LeadLinkDoneFailsRequest(r, ok) ==
    /\ gwReq[r].pc = "paymentLink"
    /\ gwReq' = [gwReq EXCEPT ![r] =
          IF ok THEN [@ EXCEPT !.pc = "updateLead"]
          ELSE Answer([@ EXCEPT !.failed = @ \cup {"paymentLink"}],
                      500, "internal")]
    /\ UNCHANGED <<profiles, quota0, conversations, applied, rlVars, whVars>>
LeadLinkDone(r, ok) ==
    /\ gwReq[r].pc = "paymentLink"
    /\ gwReq' = [gwReq EXCEPT ![r] =
          IF ok THEN [@ EXCEPT !.pc = "updateLead"]
          ELSE Answer([@ EXCEPT !.failed = @ \cup {"paymentLink"}], 201, "ok")]
    /\ UNCHANGED <<profiles, quota0, conversations, applied, rlVars, whVars>>

\* POST /leads, lines 472-490: updateLead is over (its failure is caught).
LeadUpdateDone(r, ok) ==
    /\ gwReq[r].pc = "updateLead"
    /\ gwReq' = [gwReq EXCEPT ![r] =
          Answer([@ EXCEPT !.failed = IF ok THEN @ ELSE @ \cup {"update"}],
                 201, "ok")]
    /\ UNCHANGED <<profiles, quota0, conversations, applied, rlVars, whVars>>

\* POST /chat, line 168: the id the turn is stored and answered under.
ConvIdOf(r) ==
    IF Falsy(gwReq[r].body.conversationId) THEN FreshConvId(r)
    ELSE gwReq[r].body.conversationId

\* POST /chat, lines 174-189: getChatConversation has returned; the stored
\* messages, if any, are the history handed to getChatResponse.
ChatHistoryDone(r) ==
    /\ gwReq[r].pc = "chatHistory"
    /\ LET historyData ==
               getChatConversation(conversations, gwReq[r].body.conversationId)
       IN gwReq' = [gwReq EXCEPT ![r] =
             [@ EXCEPT !.pc = "chatResponse",
                       !.history = IF historyData.stored
                                   THEN historyData.messages ELSE << >>,
                       !.effects = @ \cup {"llm"}]]
    /\ UNCHANGED <<profiles, quota0, conversations, applied, rlVars, whVars>>

\* POST /chat, lines 189-192: getChatResponse has returned (it catches its
\* errors and falls back).
ChatResponseDone(r, reply) ==
    /\ gwReq[r].pc = "chatResponse"
    /\ gwReq' = [gwReq EXCEPT ![r].pc = "chatSentiment",
                              ![r].aiResponse = reply]
    /\ UNCHANGED <<profiles, quota0, conversations, applied, rlVars, whVars>>

\* POST /chat, lines 192-223: analyzeSentiment has returned; the two new
\* messages are pushed and the upsert is issued.
ChatSentimentDone(r, completion) ==
    /\ gwReq[r].pc = "chatSentiment"
    /\ gwReq' = [gwReq EXCEPT ![r] =
          [@ EXCEPT !.pc = "chatUpsert",
                    !.sentiment = analyzeSentiment(completion),
                    !.history = @ \o
                        << [role |-> "user", content |-> gwReq[r].body.message],
                           [role |-> "assistant",
                            content |-> gwReq[r].aiResponse] >>]]
    /\ UNCHANGED <<profiles, quota0, conversations, applied, rlVars, whVars>>

\* POST /chat, lines 209-221: conversationData.
ConversationDataNewOnly(r) ==
    [conversation_id |-> ConvIdOf(r),
     messages |-> SubSeq(gwReq[r].history, Len(gwReq[r].history) - 1,
                         Len(gwReq[r].history)),
     message_count |-> 2,
     sentiment_score |-> gwReq[r].sentiment.score,
     intent |-> gwReq[r].sentiment.intent,
     urgency |-> gwReq[r].sentiment.urgency,
     keywords |-> gwReq[r].sentiment.keywords]
ConversationData(r) ==
    [conversation_id |-> ConvIdOf(r),
     messages |-> gwReq[r].history,
     message_count |-> Len(gwReq[r].history),
     sentiment_score |-> gwReq[r].sentiment.score,
     intent |-> gwReq[r].sentiment.intent,
     urgency |-> gwReq[r].sentiment.urgency,
     keywords |-> gwReq[r].sentiment.keywords]

\* POST /chat, lines 223-253: upsertChatConversation has returned, with an
\* error that is only logged when ok is FALSE; the turn is answered.
ChatUpsertDoneFailsRequest(r, ok) ==
    /\ gwReq[r].pc = "chatUpsert"
    /\ conversations' =
          IF ok THEN upsertChatConversation(conversations, ConversationData(r))
          ELSE conversations
    /\ gwReq' = [gwReq EXCEPT ![r] =
          IF ok
          THEN Answer([@ EXCEPT !.effects = @ \cup {"conversation"},
                                !.messageCount = Len(gwReq[r].history),
                                !.qualificationScore =
                                    calculateQualificationScore(<<gwReq[r].sentiment>>)],
                      200, "ok")
          ELSE Answer([@ EXCEPT !.failed = @ \cup {"conversation"}],
                      500, "internal")]
    /\ UNCHANGED <<profiles, quota0, applied, rlVars, whVars>>
ChatUpsertDoneScoresStored(r, ok) ==
    /\ gwReq[r].pc = "chatUpsert"
    /\ conversations' =
          IF ok THEN upsertChatConversation(conversations, ConversationData(r))
          ELSE conversations
    /\ LET row == conversations[ConvIdOf(r)]
           before == [score |-> row.sentiment_score, intent |-> row.intent,
                      urgency |-> row.urgency, keywords |-> row.keywords]
       IN gwReq' = [gwReq EXCEPT ![r] =
             Answer([@ EXCEPT !.effects = IF ok THEN @ \cup {"conversation"} ELSE @,
                              !.failed = IF ok THEN @ ELSE @ \cup {"conversation"},
                              !.messageCount = Len(gwReq[r].history),
                              !.qualificationScore =
                                  calculateQualificationScore(
                                      <<before, gwReq[r].sentiment>>)],
                    200, "ok")]
    /\ UNCHANGED <<profiles, quota0, applied, rlVars, whVars>>
ChatUpsertDone(r, ok) ==
    /\ gwReq[r].pc = "chatUpsert"
    /\ conversations' =
          IF ok THEN upsertChatConversation(conversations, ConversationData(r))
          ELSE conversations
    /\ gwReq' = [gwReq EXCEPT ![r] =
          Answer([@ EXCEPT !.effects = IF ok THEN @ \cup {"conversation"} ELSE @,
                           !.failed = IF ok THEN @ ELSE @ \cup {"conversation"},
                           !.messageCount = Len(gwReq[r].history),
                           !.qualificationScore =
                               calculateQualificationScore(<<gwReq[r].sentiment>>)],
                 200, "ok")]
    /\ UNCHANGED <<profiles, quota0, applied, rlVars, whVars>>

\* POST /demo-call, lines 92-111 and 151-185: initiateCall has returned or
\* thrown.
DemoInitiateDone(r, outcome) ==
    /\ gwReq[r].pc = "demoInitiate"
    /\ gwReq' = [gwReq EXCEPT ![r] =
          IF outcome = 200 THEN [@ EXCEPT !.pc = "demoInsert"]
          ELSE Answer(@, DemoErrorStatus(outcome), "provider")]
    /\ UNCHANGED <<profiles, quota0, conversations, applied, rlVars, whVars>>

\* POST /demo-call, lines 94-133: the insert into call_logs is over (its
\* failure is caught); then the Telegram message is attempted.
DemoInsertDone(r, ok) ==
    /\ gwReq[r].pc = "demoInsert"
    /\ gwReq' = [gwReq EXCEPT ![r].pc = "demoNotify",
                              ![r].effects = (IF ok THEN @ \cup {"call"} ELSE @)
                                                \cup {"notify"},
                              ![r].failed = IF ok THEN @ ELSE @ \cup {"insert"}]
    /\ UNCHANGED <<profiles, quota0, conversations, applied, rlVars, whVars>>

\* POST /demo-call, lines 113-148: the Telegram message is over (its failure
\* is caught).
DemoNotifyDone(r, ok) ==
    /\ gwReq[r].pc = "demoNotify"
    /\ gwReq' = [gwReq EXCEPT ![r] =
          Answer([@ EXCEPT !.failed = IF ok THEN @ ELSE @ \cup {"notify"}],
                 200, "ok")]
    /\ UNCHANGED <<profiles, quota0, conversations, applied, rlVars, whVars>>

\* Every user's calls_remaining; concurrent calls can take it below 0.
GwInit ==
    /\ gwReq = [r \in GwIds |-> IdleGw]
    /\ profiles \in [{"u1", "u2"} -> -1..MaxQuota]
    /\ profiles["u2"] = 1
    /\ quota0 = profiles
    /\ conversations = [id \in ConvIds |-> NoConversation]

\* Concurrent POST /call requests.
CallHeaders ==
    {NoText, Bearer \o <<"t", "1">>, Bearer \o <<"t", "2">>, Bearer \o <<"t", "9">>}
CallBodies ==
    { [EmptyBody EXCEPT !.assistantId = a, !.number = "+1"] : a \in {None, "a1"} }

CallNext ==
    \E r \in GwIds :
        \/ \E hdr \in CallHeaders, body \in CallBodies :
              GwReceive(r, "POST /call", hdr, body, TRUE)
        \/ \E reachable \in BOOLEAN : GwVerifyDone(r, reachable)
        \/ \E ok \in BOOLEAN : CallQuotaDone(r, ok)
        \/ \E outcome \in ProviderOutcomes : CallInitiateDone(r, outcome)
        \/ \E ok \in BOOLEAN : CallSaveDone(r, ok)
        \/ \E ok \in BOOLEAN : CallDecrementDone(r, ok)

\* One request to any route.
GwNext ==
    \/ \E route \in GuardedRoutes \cup PublicRoutes, hdr \in AuthHeaders,
          admitted \in BOOLEAN :
          \E body \in Bodies(route) : GwReceive(1, route, hdr, body, admitted)
    \/ \E reachable \in BOOLEAN : GwVerifyDone(1, reachable)
    \/ \E ok \in BOOLEAN : CallQuotaDone(1, ok)
    \/ \E outcome \in ProviderOutcomes : CallInitiateDone(1, outcome)
    \/ \E ok \in BOOLEAN : CallSaveDone(1, ok)
    \/ \E ok \in BOOLEAN : CallDecrementDone(1, ok)
    \/ \E outcome \in ProviderOutcomes : AssistantCreateDone(1, outcome)
    \/ \E status \in {200, 404, 500} : GwHandlerDone(1, status)
    \/ \E ok \in BOOLEAN : LeadSaveDone(1, ok)
    \/ \E ok \in BOOLEAN : LeadNotifyDone(1, ok)
    \/ \E ok \in BOOLEAN : LeadLinkDone(1, ok)
    \/ \E ok \in BOOLEAN : LeadUpdateDone(1, ok)
    \/ ChatHistoryDone(1)
    \/ \E reply \in Replies : ChatResponseDone(1, reply)
    \/ \E completion \in SentimentOutcomes : ChatSentimentDone(1, completion)
    \/ \E ok \in BOOLEAN : ChatUpsertDone(1, ok)
    \/ \E outcome \in ProviderOutcomes : DemoInitiateDone(1, outcome)
    \/ \E ok \in BOOLEAN : DemoInsertDone(1, ok)
    \/ \E ok \in BOOLEAN : DemoNotifyDone(1, ok)

(***************************************************************************)
(* Initial state and specifications                                        *)
(***************************************************************************)

Init == RlInit /\ WhInit /\ GwInit /\ applied = [fn |-> None]

RlRequest == \E req \in RlRequests : RateLimit(req)

RlNext == RlRequest \/ Sweep \/ Tick

SpecRateLimit == Init /\ [][RlNext]_vars

SpecWebhook == Init /\ [][WhNext]_vars

\* One delivery of any sample event, among them leads of every kind and
\* call events without a call or without metadata.userId.
DeliveryEvents ==
    EventNames \cup {"endedC", "endedD", "endedE", "startedDemo", "failedDemo",
                     "endedNoCall"}

DeliveryNext ==
    \/ \E ev \in DeliveryEvents : WhReceive(1, ev)
    \/ \E ok \in BOOLEAN, throws \in BOOLEAN : WhSaveDone(1, ok, throws)
    \/ \E ok \in BOOLEAN, throws \in BOOLEAN : WhUpdateCallDone(1, ok, throws)
    \/ \E ok \in BOOLEAN : WhNotifyErrorDone(1, ok)
    \/ \E ok \in BOOLEAN : WhSaveLeadDone(1, ok)
    \/ \E ok \in BOOLEAN : WhNotifyLeadDone(1, ok)
    \/ \E ok \in BOOLEAN : WhMarkNotifiedDone(1, ok)
    \/ \E ok \in BOOLEAN : WhPaymentLinkDone(1, ok)
    \/ \E ok \in BOOLEAN : WhUpdatePaymentDone(1, ok)
    \/ \E ok \in BOOLEAN : WhNotifyPaymentDone(1, ok)
    \/ \E ok \in BOOLEAN : WhMarkDone(1, ok)

SpecDelivery == Init /\ [][DeliveryNext]_vars

\* POST /demo-call behind its limiter: up to MaxDemoReqs requests of two
\* clients, at most MaxDemoOpen of them in progress at a time; time passes
\* between the requests.
DemoIds == 1..MaxDemoReqs
DemoClients ==
    { [xff |-> <<ip>>, realIp |-> None, remote |-> "ipP"] : ip \in {"ipA", "ipB"} }
ValidPhone ==
    <<"+", "1", " ", "(", "4", "1", "5", ")", " ", "5", "5", "5", "-", "1", "2", "3", "4">>
DemoBodies ==
    { [EmptyBody EXCEPT !.phoneNumber = ValidPhone, !.honeypot = ""],
      [EmptyBody EXCEPT !.phoneNumber = ValidPhone, !.honeypot = "bot"],
      [EmptyBody EXCEPT !.phoneNumber = <<"0", "1", "2", "3", "4", "5", "6", "7">>] }

\* The names of the properties of the JSON body that answers a request to
\* POST /demo-call: the limiter's 429 (rate-limit.middleware.ts 67-72), the
\* 400 of the validation (37-63), the 200 (135-141), the errors (149-185).
DemoResponseBody(q) ==
    CASE q.by = "limiter" -> {"success", "error", "message", "retryAfter"}
      [] q.by = "validation" -> {"success", "error"}
      [] q.by = "ok" ->
           {"success", "message", "callId", "phoneNumber", "estimatedWaitTime"}
      [] OTHER -> {"success", "error", "message"}

\* Time passes after the first request, while no request is in progress.
DemoTick == rlHist # << >> /\ InProgress = {} /\ Tick

DemoInit ==
    /\ RlInit /\ WhInit
    /\ telegramEnabled /\ flutterwaveEnabled
    /\ gwReq = [r \in DemoIds |-> IdleGw]
    /\ profiles = [u \in {"u1", "u2"} |-> 1]
    /\ quota0 = profiles
    /\ conversations = [id \in ConvIds |-> NoConversation]
    /\ applied = [fn |-> None]

DemoNext ==
    \/ \E r \in DemoIds :
          \/ \E req \in DemoClients, body \in DemoBodies : DemoReceive(r, req, body)
          \/ \E outcome \in {200, 400} : DemoInitiateDone(r, outcome)
          \/ DemoInsertDone(r, TRUE)
          \/ DemoNotifyDone(r, TRUE)
    \/ DemoTick

SpecDemo == DemoInit /\ [][DemoNext]_vars

SpecCall == Init /\ [][CallNext]_vars

SpecGateway == Init /\ [][GwNext]_vars

\* Chat turns, one after another or overlapping.
ChatBodies ==
    { [EmptyBody EXCEPT !.message = <<"h", "i">>, !.conversationId = c] :
        c \in {None, "k1"} }

ChatNext ==
    \E r \in GwIds :
        \/ \E body \in ChatBodies : GwReceive(r, "POST /chat", NoText, body, TRUE)
        \/ ChatHistoryDone(r)
        \/ \E reply \in Replies : ChatResponseDone(r, reply)
        \/ \E completion \in SentimentOutcomes : ChatSentimentDone(r, completion)
        \/ \E ok \in BOOLEAN : ChatUpsertDone(r, ok)

SpecChat == Init /\ [][ChatNext]_vars

\* Chat turns run one after another: a turn starts when no other is running.
ChatTurnsNext ==
    \E r \in GwIds :
        \/ /\ \A q \in GwIds : gwReq[q].pc \in {"idle", "done"}
           /\ \E body \in ChatBodies :
                 GwReceive(r, "POST /chat", NoText, body, TRUE)
        \/ ChatHistoryDone(r)
        \/ \E reply \in Replies : ChatResponseDone(r, reply)
        \/ \E completion \in SentimentOutcomes : ChatSentimentDone(r, completion)
        \/ \E ok \in BOOLEAN : ChatUpsertDone(r, ok)

SpecChatTurns == Init /\ [][ChatTurnsNext]_vars

(***************************************************************************)
(* The request logger, part_000                                            *)
(***************************************************************************)

\* A JSON value: kind is the kind of the value, text the characters of a
\* string, props the own enumerable properties of an object or an array in
\* the order of for...in (the keys of an array are its indices).
Undefined == [kind |-> "undefined", text |-> << >>, props |-> << >>]
Null == [kind |-> "null", text |-> << >>, props |-> << >>]
Str(s) == [kind |-> "string", text |-> s, props |-> << >>]
Obj(props) == [kind |-> "object", text |-> << >>, props |-> props]
Arr(items) ==
    [kind |-> "array", text |-> << >>,
     props |-> [i \in 1..Len(items) |-> [key |-> <<ToString(i - 1)>>, value |-> items[i]]]]
Prop(key, value) == [key |-> key, value |-> value]

\* typeof
TypeOf(v) == IF v.kind \in {"object", "array", "null"} THEN "object" ELSE v.kind

\* !v
Not(v) == v.kind \in {"undefined", "null"} \/ (v.kind = "string" /\ v.text = << >>)

\* line 83-96
sensitiveKeys ==
    << <<"p", "a", "s", "s", "w", "o", "r", "d">>,
       <<"t", "o", "k", "e", "n">>,
       <<"a", "p", "i", "K", "e", "y">>,
       <<"a", "p", "i", "_", "k", "e", "y">>,
       <<"s", "e", "c", "r", "e", "t">>,
       <<"a", "u", "t", "h", "o", "r", "i", "z", "a", "t", "i", "o", "n">>,
       <<"a", "u", "t", "h">>,
       <<"c", "r", "e", "d", "i", "t", "_", "c", "a", "r", "d">>,
       <<"c", "r", "e", "d", "i", "t", "C", "a", "r", "d">>,
       <<"s", "s", "n">>,
       <<"p", "r", "i", "v", "a", "t", "e", "K", "e", "y">>,
       <<"p", "r", "i", "v", "a", "t", "e", "_", "k", "e", "y">> >>

Redacted == Str(<<"[", "R", "E", "D", "A", "C", "T", "E", "D", "]">>)

\* line 101, with the key compared as it is written
isSensitiveAsWritten(key) ==
    \E i \in 1..Len(sensitiveKeys) : Includes(key, sensitiveKeys[i])

\* line 101: sensitiveKeys.some(sensitive =>
\*   key.toLowerCase().includes(sensitive.toLowerCase()))
isSensitive(key) ==
    \E i \in 1..Len(sensitiveKeys) :
        Includes(ToLowerCase(key), ToLowerCase(sensitiveKeys[i]))

\* sanitizeData, lines 78-109
RECURSIVE sanitizeData(_)
sanitizeData(data) ==
    IF Not(data) \/ TypeOf(data) # "object"
    THEN data
    ELSE [data EXCEPT !.props =
            [i \in 1..Len(data.props) |->
               LET key == data.props[i].key
                   value == data.props[i].value
               IN IF isSensitive(key) THEN Prop(key, Redacted)
                  ELSE IF TypeOf(value) = "object"
                       THEN Prop(key, sanitizeData(value))
                       ELSE Prop(key, value)]]

\* obj?.name: the value of the property of that name, undefined without one
Get(obj, name) ==
    IF \E i \in 1..Len(obj.props) : obj.props[i].key = name
    THEN obj.props[CHOOSE i \in 1..Len(obj.props) : obj.props[i].key = name].value
    ELSE Undefined

\* requestLogger, lines 13-73: the row handed to logRequest when the
\* response has been sent; response is the response body, parsed when it was
\* a string of JSON.
requestLogger(req) ==
    LET sanitizedRequest == sanitizeData(req.body)
        sanitizedResponse == sanitizeData(req.response)
        message == Get(sanitizedResponse, <<"m", "e", "s", "s", "a", "g", "e">>)
    IN [status_code |-> req.statusCode,
        request_body |-> sanitizedRequest,
        response_body |-> sanitizedResponse,
        error_message |->
            IF req.statusCode >= 400
            THEN IF Not(message) THEN Get(sanitizedResponse, <<"e", "r", "r", "o", "r">>)
                 ELSE message
            ELSE Undefined]

\* Keys of the sample documents: sensitive names as they are, in other
\* letter cases and inside longer names, and names that are not sensitive.
SampleKeys ==
    { <<"p", "a", "s", "s", "w", "o", "r", "d">>,
      <<"P", "a", "s", "s", "W", "o", "r", "d">>,
      <<"u", "s", "e", "r", "T", "o", "k", "e", "n">>,
      <<"a", "p", "i", "K", "e", "y">>,
      <<"A", "P", "I", "K", "E", "Y">>,
      <<"c", "l", "i", "e", "n", "t", "_", "s", "e", "c", "r", "e", "t">>,
      <<"A", "u", "t", "h", "o", "r", "i", "z", "a", "t", "i", "o", "n">>,
      <<"c", "r", "e", "d", "i", "t", "C", "a", "r", "d">>,
      <<"S", "S", "N">>,
      <<"p", "r", "i", "v", "a", "t", "e", "K", "e", "y">>,
      <<"P", "R", "I", "V", "A", "T", "E", "K", "E", "Y">>,
      <<"n", "a", "m", "e">>,
      <<"n", "e", "s", "t", "e", "d">>,
      <<"i", "t", "e", "m", "s">>,
      <<"p", "a", "s", "s">>,
      <<"k", "e", "y">> }

Xyz == Str(<<"x", "y", "z">>)

\* {password: "secret123", nested: {apiKey: "xyz"}}
SpecExample ==
    Obj(<< Prop(<<"p", "a", "s", "s", "w", "o", "r", "d">>, Str(<<"s", "e", "c", "r", "e", "t", "1", "2", "3">>)),
           Prop(<<"n", "e", "s", "t", "e", "d">>, Obj(<< Prop(<<"a", "p", "i", "K", "e", "y">>, Xyz) >>)) >>)

\* One-property objects, and these wrapped up to d times in an object, an
\* array or an array next to a string.
RECURSIVE Documents(_)
Documents(d) ==
    IF d = 0
    THEN { Obj(<< Prop(k, v) >>) :
             k \in SampleKeys,
             v \in {Xyz, Null, Obj(<< Prop(<<"n", "a", "m", "e">>, Xyz) >>)} }
    ELSE LET inner == Documents(d - 1)
         IN inner
            \cup { Obj(<< Prop(<<"n", "e", "s", "t", "e", "d">>, x) >>) : x \in inner }
            \cup { Obj(<< Prop(<<"i", "t", "e", "m", "s">>, Arr(<< Xyz, x >>)) >>) : x \in inner }
            \cup { Arr(<< x >>) : x \in inner }

\* The arguments of sanitizeData.
SanitizeInputs ==
    Documents(MaxDepth) \cup {SpecExample, Undefined, Null, Xyz, Str(<< >>), Arr(<< >>)}

\* The requests seen by requestLogger.
LoggedRequests ==
    [body : Documents(0) \cup {Undefined},
     response : { Xyz,
                  Obj(<< Prop(<<"e", "r", "r", "o", "r">>, Xyz) >>),
                  Obj(<< Prop(<<"m", "e", "s", "s", "a", "g", "e">>, Xyz),
                         Prop(<<"t", "o", "k", "e", "n">>, Xyz) >>) },
     statusCode : {200, 400}]

\* The pure functions of the classifier and the scorer, each applied to one
\* argument: a history of up to MaxHistory classifications for
\* calculateQualificationScore, an outcome of the completion request for
\* analyzeSentiment, a transcript for calculateConfidence, a JSON value for
\* sanitizeData, a request and its response for requestLogger.
FnInit ==
    /\ RlInit /\ WhInit /\ GwInit
    /\ telegramEnabled /\ flutterwaveEnabled
    /\ profiles["u1"] = 0
    /\ \E fn \in {"calculateQualificationScore", "analyzeSentiment",
                  "calculateConfidence", "sanitizeData", "requestLogger"} :
          \E arg \in
              CASE fn = "calculateQualificationScore" ->
                     UNION { [1..n ->
                                [score : {-200, 0, 100, 150},
                                 intent : {"purchase", "general", "spam"},
                                 urgency : {"high", "low", "asap"},
                                 keywords : {<< >>}]] : n \in 0..MaxHistory }
                [] fn = "analyzeSentiment" ->
                     { Completion(kind, EmptyAnalysis) :
                         kind \in {"throws", "noJson", "badJson", "empty"} }
                     \cup
                     { Completion("json", analysis) : analysis \in
                         [score : {NoNumber, 0, 30, 100, 250, -50, NaN},
                          intent : {None, "demo", "purchase", "spam"},
                          urgency : {None, "high", "asap"},
                          keywords : {NoText, << >>, <<"buy">>}] }
                [] fn = "calculateConfidence" ->
                     { TranscriptA, TranscriptB,
                       <<"I", "'", "m", " ", "i", "n", "t", "e", "r", "e",
                         "s", "t", "e", "d", ",", " ", "s", "i", "g", "n", " ", "m", "e", " ", "u", "p", "!">>,
                       <<"n", "o", ",", " ", "n", "o", "t", " ", "i", "n",
                         "t", "e", "r", "e", "s", "t", "e", "d">>,
                       <<"Y", "E", "S", ",", " ", "D", "e", "f", "i", "n",
                         "i", "t", "e", "l", "y", ".", " ", "S", "u", "r",
                         "e", ",", " ", "a", "b", "s", "o", "l", "u", "t",
                         "e", "l", "y", " ", "i", "n", "t", "e", "r", "e",
                         "s", "t", "e", "d">>,
                       <<"N", "o", ".", " ", "M", "a", "y", "b", "e", " ",
                         "l", "a", "t", "e", "r", ",", " ", "n", "o", "t", " ", "i", "n", "t", "e", "r", "e", "s", "t", "e",
                         "d">>,
                       <<"c", "a", "l", "l", " ", "m", "e", " ", "b", "a",
                         "c", "k">>,
                       <<"M", "a", "y", "b", "e">> }
                [] fn = "sanitizeData" -> SanitizeInputs
                [] fn = "requestLogger" -> LoggedRequests :
              applied = [fn |-> fn, arg |-> arg, called |-> FALSE]

\* The function is called and returns.
Apply ==
    /\ applied.fn # None
    /\ ~applied.called
    /\ applied' =
          [fn |-> applied.fn, arg |-> applied.arg, called |-> TRUE,
           result |->
              CASE applied.fn = "calculateQualificationScore" ->
                     calculateQualificationScore(applied.arg)
                [] applied.fn = "analyzeSentiment" ->
                     analyzeSentiment(applied.arg)
                [] applied.fn = "calculateConfidence" ->
                     calculateConfidence(applied.arg)
                [] applied.fn = "sanitizeData" ->
                     sanitizeData(applied.arg)
                [] applied.fn = "requestLogger" ->
                     requestLogger(applied.arg)]
    /\ UNCHANGED <<gwReq, profiles, quota0, conversations, rlVars, whVars>>

SpecFunctions == FnInit /\ [][Apply]_vars

\* The three side-effect pipelines: one call.ended delivery, and one request
\* to POST /leads or POST /demo-call.
PipelineNext ==
    \/ \E ev \in {"endedA", "endedB"} : WhReceive(1, ev)
    \/ \E ok \in BOOLEAN, throws \in BOOLEAN : WhSaveDone(1, ok, throws)
    \/ \E ok \in BOOLEAN, throws \in BOOLEAN : WhUpdateCallDone(1, ok, throws)
    \/ \E ok \in BOOLEAN : WhSaveLeadDone(1, ok)
    \/ \E ok \in BOOLEAN : WhNotifyLeadDone(1, ok)
    \/ \E ok \in BOOLEAN : WhMarkNotifiedDone(1, ok)
    \/ \E ok \in BOOLEAN : WhPaymentLinkDone(1, ok)
    \/ \E ok \in BOOLEAN : WhUpdatePaymentDone(1, ok)
    \/ \E ok \in BOOLEAN : WhNotifyPaymentDone(1, ok)
    \/ \E ok \in BOOLEAN : WhMarkDone(1, ok)
    \/ \E route \in {"POST /leads", "POST /demo-call"}, admitted \in BOOLEAN :
          \E body \in Bodies(route) : GwReceive(1, route, NoText, body, admitted)
    \/ \E ok \in BOOLEAN : LeadSaveDone(1, ok)
    \/ \E ok \in BOOLEAN : LeadNotifyDone(1, ok)
    \/ \E ok \in BOOLEAN : LeadLinkDone(1, ok)
    \/ \E ok \in BOOLEAN : LeadUpdateDone(1, ok)
    \/ \E outcome \in ProviderOutcomes : DemoInitiateDone(1, outcome)
    \/ \E ok \in BOOLEAN : DemoInsertDone(1, ok)
    \/ \E ok \in BOOLEAN : DemoNotifyDone(1, ok)

SpecPipeline == Init /\ [][PipelineNext]_vars

(***************************************************************************)
(* C1                                                                      *)
(***************************************************************************)

\* The decisions of the window that decision i opened.
WindowOf(i) ==
    { j \in i..Len(rlHist) :
        /\ rlHist[j].key = rlHist[i].key
        /\ rlHist[j].t <= rlHist[i].t + WindowMs }

\* The position of decision i among its key's decisions since the last
\* decision that opened a window.
RankInWindow(i) ==
    LET key   == rlHist[i].key
        opens == { j \in 1..i : rlHist[j].key = key /\ rlHist[j].fresh }
        start == CHOOSE j \in opens : \A o \in opens : o <= j
    IN Cardinality({ j \in start..i : rlHist[j].key = key })

\* C1: for every client key and every fixed window (the WindowMs
\* milliseconds from a request that opens a window), over any interleaving
\* of requests, sweeps and clock advances, at most MaxRequests requests are
\* admitted (next is called); within a window the requests of a key are
\* admitted up to the MaxRequests-th and rejected with 429 from there on.
C1_AtMostMaxAdmittedPerWindow ==
    \A i \in 1..Len(rlHist) :
        /\ rlHist[i].fresh =>
              Cardinality({ j \in WindowOf(i) : rlHist[j].next }) <= MaxRequests
        /\ rlHist[i].next <=> RankInWindow(i) <= MaxRequests
        /\ ~rlHist[i].next <=> rlHist[i].status = 429

\* A key has been admitted MaxRequests times and then rejected, all inside
\* one window.
C1_Witness ==
    \E i \in 1..Len(rlHist) :
        /\ rlHist[i].fresh
        /\ \E j \in WindowOf(i) :
              /\ rlHist[j].status = 429
              /\ RankInWindow(j) = MaxRequests + 1
              /\ \A m \in i..(j - 1) :
                    rlHist[m].key = rlHist[i].key => rlHist[m].next

(***************************************************************************)
(* C2 - C6: the webhook processor                                          *)
(***************************************************************************)

Answered(r) == whReq[r].pc = "done"

\* C2: every delivery that has been answered was answered with status 200,
\* whatever its event type and whether or not the insert, the handler or
\* the update that marks it processed failed; when the handler raised an
\* error the body of the 200 response carries that error's message.
C2_WebhookAlwaysAnswers200 ==
    \A r \in WebhookIds :
        Answered(r) =>
            /\ whReq[r].status = 200
            /\ whReq[r].body = WebhookBody(whReq[r].err)

\* A delivery whose insert failed and whose handler raised an error has
\* been answered with 200 and the error's message.
C2_Witness ==
    \E r \in WebhookIds :
        /\ Answered(r)
        /\ whReq[r].saved = NoRow
        /\ whReq[r].err = "handler error"
        /\ whReq[r].status = 200
        /\ whReq[r].body.error = "handler error"

\* C3 (as stated): every answered delivery has its row in webhook_events,
\* updated exactly once to processed = true and carrying the error message
\* of its handler, if any.
C3_EveryEventStoredProcessed ==
    \A r \in WebhookIds :
        Answered(r) =>
            /\ r \in DOMAIN webhookEvents
            /\ webhookEvents[r].processed
            /\ webhookEvents[r].marks = 1
            /\ webhookEvents[r].error_message = whReq[r].err

\* C3 (amended): a delivery inserts at most one row, with processed = false
\* and before its handler runs; a failed insert leaves no row and the
\* handler runs all the same.  When the row was inserted, the handler being
\* over, exactly one update of that row is attempted: if it succeeds the
\* row has processed = true and the handler's error message, if it fails
\* the row keeps processed = false.
C3_StoredOnceMarkedAtMostOnce ==
    \A r \in WebhookIds :
        /\ r \in DOMAIN webhookEvents <=> whReq[r].saved = r
        /\ whReq[r].pc \in {"idle", "save"} =>
              r \notin DOMAIN webhookEvents /\ whReq[r].saved = NoRow
        /\ ~Answered(r) =>
              /\ whReq[r].markCalls = 0
              /\ r \in DOMAIN webhookEvents =>
                    /\ ~webhookEvents[r].processed
                    /\ webhookEvents[r].marks = 0
                    /\ webhookEvents[r].error_message = None
                    /\ webhookEvents[r].payload = whReq[r].ev
        /\ Answered(r) /\ r \notin DOMAIN webhookEvents =>
              whReq[r].markCalls = 0
        /\ Answered(r) /\ r \in DOMAIN webhookEvents =>
              /\ whReq[r].markCalls = 1
              /\ webhookEvents[r].marks \in {0, 1}
              /\ webhookEvents[r].processed <=> webhookEvents[r].marks = 1
              /\ webhookEvents[r].error_message =
                    IF webhookEvents[r].processed THEN whReq[r].err ELSE None

\* A delivery whose handler raised an error has its row with
\* processed = true and the error's message, after one update.
C3_Witness ==
    \E r \in WebhookIds :
        /\ Answered(r)
        /\ r \in DOMAIN webhookEvents
        /\ webhookEvents[r].processed
        /\ webhookEvents[r].marks = 1
        /\ webhookEvents[r].error_message = "handler error"

\* C4 (as stated): once the status of a call is answered or missed, no step
\* of any delivery changes it.
C4_TerminalStatusStays ==
    [][\A c \in CallIds :
          calls[c].status \in {"answered", "missed"} =>
              calls'[c].status = calls[c].status]_vars

\* C5 (as stated): the deliveries of one call.ended event, replays included,
\* create at most one lead for the call.
C5_AtMostOneLeadPerTranscript ==
    \A r1 \in DOMAIN leads, r2 \in DOMAIN leads :
        /\ whReq[r1].ev = whReq[r2].ev
        /\ leads[r1].call_id = leads[r2].call_id
        => r1 = r2

\* The call row after one call.ended event ev has been processed.
ProcessedOnce(ev) ==
    Patch(NewCallRow, CallUpdates("call.ended", Event(ev).call))

\* The deliveries in D, and no others, have been received; they carry the
\* same call.ended event of a user's call, all have been answered, and no
\* external operation has failed.
EndedDelivered(D, ev) ==
    /\ Event(ev).type = "call.ended"
    /\ Event(ev).call.userId # None
    /\ whFaults = 0
    /\ \A r \in WebhookIds :
          IF r \in D THEN Answered(r) /\ whReq[r].ev = ev
          ELSE whReq[r].pc = "idle"

Decrements(u) ==
    { r \in GwIds : gwReq[r].user = u /\ "quota" \in gwReq[r].effects }

\* C7: a POST /call that reads the caller's calls_remaining as 0 or lower is
\* answered 403 and has asked the provider for no call, saved no call row
\* and decremented nothing; a request that has asked the provider for a
\* call has read a quota greater than 0; and a user's row of the table
\* profiles is as it was until one of the user's requests decrements it.
C7_NoCallWithoutQuota ==
    /\ \A r \in GwIds :
          LET q == gwReq[r]
          IN /\ q.quotaRead /\ q.callsRemaining <= 0 =>
                   q.pc = "done" /\ q.status = 403 /\ q.effects = {}
             /\ "provider" \in q.effects => q.quotaRead /\ q.callsRemaining > 0
             /\ q.effects \cap {"call", "quota"} # {} => "provider" \in q.effects
    /\ \A u \in DOMAIN profiles :
          Decrements(u) = {} => profiles[u] = quota0[u]

\* Two calls of one user with a quota of 1: the first is made and uses the
\* quota up, the second reads 0 and is refused.
C7_Witness ==
    \E r1 \in GwIds, r2 \in GwIds :
        /\ gwReq[r1].user = gwReq[r2].user
        /\ gwReq[r1].pc = "done" /\ gwReq[r1].status = 200
        /\ gwReq[r1].callsRemaining = 1
        /\ gwReq[r2].pc = "done" /\ gwReq[r2].status = 403
        /\ gwReq[r2].quotaRead /\ gwReq[r2].callsRemaining = 0
        /\ gwReq[r2].effects = {}

\* C8: every user's stored quota is the initial one less the number of the
\* user's POST /call requests answered 200, so it drops by exactly one with
\* each 200 and stays with every other status.
C8_QuotaDropsByOnePer200 ==
    \A u \in DOMAIN profiles :
        profiles[u] = quota0[u] -
            Cardinality({ r \in GwIds : /\ gwReq[r].user = u
                                        /\ gwReq[r].pc = "done"
                                        /\ gwReq[r].status = 200 })

\* The token of a header that starts with 'Bearer '.
TokenOf(hdr) == SubSeq(hdr, Len(Bearer) + 1, Len(hdr))

\* The header carries a token that belongs to a user.
Credentialed(hdr) ==
    /\ hdr # NoText
    /\ StartsWith(hdr, Bearer)
    /\ TokenUser(TokenOf(hdr)) # None

\* C9: on a route guarded by authenticate, a request with no Authorization
\* header, with one that does not start with 'Bearer ' or with a token that
\* does not belong to a user never reaches its handler and its answer is
\* 401; so is the answer to a request whose token was not verified; and a
\* handler that runs has req.user set to the user the token belongs to.
C9_GuardedHandlerNeedsVerifiedUser ==
    \A r \in GwIds :
        LET q == gwReq[r]
        IN q.route \in GuardedRoutes =>
             /\ ~Credentialed(q.hdr) =>
                   /\ ~q.ran /\ q.pc \in {"verify", "done"} /\ q.effects = {}
                   /\ q.pc = "done" => q.status = 401
             /\ q.pc = "done" /\ q.user = None => q.status = 401 /\ ~q.ran
             /\ q.ran => Credentialed(q.hdr) /\ q.user = TokenUser(TokenOf(q.hdr))

\* A token the identity provider does not know, on PATCH /leads/:id.
C9_Witness ==
    \E r \in GwIds :
        /\ gwReq[r].route = "PATCH /leads/:id"
        /\ gwReq[r].hdr = Bearer \o <<"t", "9">>
        /\ gwReq[r].pc = "done" /\ gwReq[r].status = 401
        /\ ~gwReq[r].ran

PostRoutes ==
    {"POST /call", "POST /assistant", "POST /leads", "POST /chat",
     "POST /demo-call"}

\* A field the route requires is absent or empty.
MissingRequired(route, body) ==
    LET no(x) == x \in {None, ""}
        noText(x) == x \in {NoText, << >>}
    IN CASE route = "POST /call" -> no(body.assistantId) \/ no(body.number)
         [] route = "POST /assistant" ->
              no(body.name) \/ no(body.model) \/ no(body.voice)
         [] route = "POST /leads" -> no(body.name) \/ noText(body.email)
         [] route = "POST /chat" -> noText(body.message)
         [] route = "POST /demo-call" -> noText(body.phoneNumber)
         [] OTHER -> FALSE

SavedFields(row) ==
    [user_id |-> row.user_id, call_id |-> row.call_id, name |-> row.name,
     email |-> row.email, phone |-> row.phone, intent |-> row.intent,
     is_qualified |-> row.is_qualified,
     confidence_score |-> row.confidence_score]

\* The saved lead is qualified and has a name and an email.
QualifiedWithContact(row) ==
    row.is_qualified /\ row.name # None /\ row.email # None

\* C11: once the lead is saved, the step that ends the new-lead
\* notification, sent or failed, goes on to markLeadNotified, and from there
\* a qualified lead with name and email goes on to the payment link
\* (with the payment service configured); the step that ends the payment-link
\* generation, with a link or without, leaves the leads and the messages
\* sent as they are; no step removes a lead, changes what saveLead wrote or
\* takes back a message; and the delivery is answered 200 without an error.
C11_LeadPipelineBestEffort ==
    [][ /\ \A id \in DOMAIN leads :
              /\ id \in DOMAIN leads'
              /\ SavedFields(leads'[id]) = SavedFields(leads[id])
        /\ \A k \in DOMAIN telegramSent : telegramSent'[k] >= telegramSent[k]
        /\ \A r \in WebhookIds :
              LET q == whReq[r]
                  n == whReq'[r]
              IN /\ q.pc = "notifyLead" /\ n.pc # q.pc =>
                       n.pc = "markNotified" /\ leads' = leads
                 /\ q.pc = "markNotified" /\ n.pc # q.pc =>
                       n.pc = IF QualifiedWithContact(leads[q.lead])
                                 /\ flutterwaveEnabled
                              THEN "paymentLink" ELSE "mark"
                 /\ q.pc = "paymentLink" /\ n.pc # q.pc =>
                       /\ n.pc \in {"updatePayment", "mark"}
                       /\ leads' = leads /\ telegramSent' = telegramSent
                 /\ q.lead # NoRow =>
                       /\ n.lead = q.lead /\ n.err = None
                       /\ n.pc = "done" => n.status = 200 /\ n.body = WebhookBody(None)
      ]_vars

\* The notification of a qualified lead has failed and its payment link is
\* being generated.
C11_Witness ==
    \E r \in WebhookIds :
        /\ whReq[r].pc = "paymentLink"
        /\ telegramEnabled /\ telegramSent["lead"] = 0
        /\ QualifiedWithContact(leads[whReq[r].lead])

(***************************************************************************)
(* C12: the response and the side-effect steps                             *)
(***************************************************************************)

\* The positions at which a notification or a payment-link step of a
\* request is under way.
GwPending == {"notifyLead", "paymentLink", "demoNotify"}
WhPending == {"notifyLead", "paymentLink", "notifyPayment"}

LeadSavedPcs == {"notifyLead", "paymentLink", "updateLead"}
DemoInitiatedPcs == {"demoInsert", "demoNotify"}

\* C13: in POST /leads, once the lead is saved, and in POST /demo-call, once
\* the call is initiated, every step, failed or not, leads to the next step
\* or to the success response (201, 200); nothing the request has done is
\* undone, and saveLead and initiateCall are entered from the start of the
\* request only, never again.
C13_SideEffectFailuresKeepResponse ==
    [][ \A r \in GwIds :
            LET q == gwReq[r]
                n == gwReq'[r]
            IN /\ q.effects \subseteq n.effects
               /\ n.pc \in {"saveLead", "demoInitiate"} /\ n.pc # q.pc =>
                     q.pc = "idle"
               /\ q.pc \in LeadSavedPcs =>
                     /\ "lead" \in n.effects
                     /\ n.pc \in LeadSavedPcs \cup {"done"}
                     /\ n.pc = "done" => n.status = 201 /\ n.by = "ok"
               /\ q.pc \in DemoInitiatedPcs =>
                     /\ "provider" \in n.effects
                     /\ n.pc \in DemoInitiatedPcs \cup {"done"}
                     /\ n.pc = "done" => n.status = 200 /\ n.by = "ok"
      ]_vars

\* A lead of the widget whose notification and payment link both failed is
\* answered 201.
C13_Witness ==
    \E r \in GwIds :
        /\ gwReq[r].route = "POST /leads" /\ gwReq[r].pc = "done"
        /\ gwReq[r].failed = {"notify", "paymentLink"}
        /\ gwReq[r].status = 201 /\ "lead" \in gwReq[r].effects

(***************************************************************************)
(* C14: the window after an expired one                                    *)
(***************************************************************************)

\* The earlier decisions on the key of decision i.
EarlierOnKey(i) == { j \in 1..(i - 1) : rlHist[j].key = rlHist[i].key }

\* Decision i comes after the window of the key's previous decision has
\* expired (its resetTime is past).
AfterExpiry(i) ==
    /\ EarlierOnKey(i) # {}
    /\ rlHist[Max(EarlierOnKey(i))].resetTime < rlHist[i].t

\* C14: the first request of a key after its window has expired is admitted,
\* whatever the earlier window counted, swept or not, and starts a window
\* with count 1 and resetTime = now + windowMs, which is what the store holds
\* for the key until its next request or the sweep.
C14_FreshWindowAfterExpiry ==
    \A i \in 1..Len(rlHist) :
        AfterExpiry(i) =>
            /\ rlHist[i].next /\ rlHist[i].status = 0
            /\ rlHist[i].count = 1
            /\ rlHist[i].resetTime = rlHist[i].t + WindowMs
            /\ (/\ \A j \in (i + 1)..Len(rlHist) : rlHist[j].key # rlHist[i].key
                /\ rlHist[i].key \in DOMAIN rateLimitStore) =>
                  rateLimitStore[rlHist[i].key] =
                     [count |-> 1, resetTime |-> rlHist[i].t + WindowMs]

\* A key is rejected in one window and admitted, with count 1, after it.
C14_Witness ==
    \E i \in 2..Len(rlHist) :
        /\ AfterExpiry(i)
        /\ rlHist[Max(EarlierOnKey(i))].status = 429
        /\ rlHist[i].next /\ rlHist[i].count = 1

(***************************************************************************)
(* C15                                                                     *)
(***************************************************************************)

\* The two messages a chat turn adds: the user's, then the assistant's.
NewMessages(q) ==
    << [role |-> "user", content |-> q.body.message],
       [role |-> "assistant", content |-> q.aiResponse] >>

\* The step in which the conversation of turn r is stored.
Stores(r) ==
    /\ gwReq[r].pc = "chatUpsert"
    /\ gwReq'[r].pc = "done"
    /\ "conversation" \in gwReq'[r].effects

\* C15: when chat turns run one after another, the step that stores a
\* turn's conversation leaves under the turn's id the messages stored there
\* before, followed by exactly the user message and the assistant reply, with
\* message_count (and the messageCount answered) equal to the number of
\* stored messages; a turn without a conversationId stores under an id that
\* held no row and that no request supplied, so the row holds exactly the
\* two messages.
C15_TurnAppendsTwoMessages ==
    [][\A r \in GwIds :
          Stores(r) =>
            LET id == ConvIdOf(r)
                before == conversations[id]
                after == conversations'[id]
            IN /\ after.stored
               /\ after.messages = before.messages \o NewMessages(gwReq[r])
               /\ after.message_count = Len(after.messages)
               /\ gwReq'[r].messageCount = Len(after.messages)
               /\ gwReq'[r].status = 200
               /\ \A k \in ConvIds \ {id} : conversations'[k] = conversations[k]
               /\ Falsy(gwReq[r].body.conversationId) =>
                     /\ ~before.stored
                     /\ \A q \in GwIds : gwReq[q].body.conversationId # id
                     /\ after.messages = NewMessages(gwReq[r])]_vars

\* Every turn has been stored, the last of them on top of the two messages
\* that conversation k1 held already.
C15_Witness ==
    /\ conversations["k1"].message_count = 4
    /\ \A r \in GwIds : gwReq[r].pc = "done" /\ "conversation" \in gwReq[r].effects

(***************************************************************************)
(* C16                                                                     *)
(***************************************************************************)

\* The step in which turn r learns that its conversation was not stored.
StoreFails(r) ==
    /\ gwReq[r].pc = "chatUpsert"
    /\ gwReq'[r].pc = "done"
    /\ "conversation" \in gwReq'[r].failed

\* C16: the step in which a chat turn's upsert comes back with an error
\* answers the turn with 200 and with the reply getChatResponse gave, the
\* classification analyzeSentiment gave, the number of messages of the turn
\* and the qualification score of that classification; it changes no stored
\* conversation and no other request.
C16_StoreFailureStillAnswers ==
    [][\A r \in GwIds :
          StoreFails(r) =>
            /\ gwReq'[r].status = 200
            /\ gwReq'[r].by = "ok"
            /\ gwReq'[r].aiResponse = gwReq[r].aiResponse
            /\ gwReq'[r].aiResponse \in Replies
            /\ gwReq'[r].sentiment = gwReq[r].sentiment
            /\ gwReq'[r].sentiment # EmptyAnalysis
            /\ gwReq'[r].messageCount = Len(gwReq[r].history)
            /\ gwReq'[r].qualificationScore =
                  calculateQualificationScore(<<gwReq[r].sentiment>>)
            /\ gwReq'[r].qualificationScore # NoScore
            /\ conversations' = conversations
            /\ \A q \in GwIds \ {r} : gwReq'[q] = gwReq[q]]_vars

\* A turn whose conversation could not be stored has been answered.
C16_Witness ==
    \E r \in GwIds :
        /\ gwReq[r].pc = "done"
        /\ gwReq[r].route = "POST /chat"
        /\ "conversation" \in gwReq[r].failed
        /\ ~conversations[ConvIdOf(r)].stored

(***************************************************************************)
(* C17                                                                     *)
(***************************************************************************)

\* A chat turn that has been answered with 200.
TurnAnswered(r) ==
    /\ gwReq[r].pc = "done"
    /\ gwReq[r].route = "POST /chat"
    /\ gwReq[r].status = 200

\* The classification of the turn's user message.
Classification(r) ==
    <<gwReq[r].sentiment.score, gwReq[r].sentiment.intent,
      gwReq[r].sentiment.urgency>>

\* C17: any two answered chat turns whose user messages were classified
\* alike (same score, intent and urgency) carry the same qualificationScore,
\* whatever history each of them read from the store.
C17_ScoreDependsOnClassificationOnly ==
    \A r1 \in GwIds, r2 \in GwIds :
        (TurnAnswered(r1) /\ TurnAnswered(r2) /\ Classification(r1) = Classification(r2))
            => gwReq[r1].qualificationScore = gwReq[r2].qualificationScore

\* Two answered turns with the same classification, one that found nothing
\* stored and one that found the other's messages and sentiment fields
\* stored.
C17_Witness ==
    \E r1 \in GwIds, r2 \in GwIds :
        /\ TurnAnswered(r1) /\ TurnAnswered(r2)
        /\ Classification(r1) = Classification(r2)
        /\ gwReq[r1].sentiment # DefaultSentiment
        /\ Len(gwReq[r1].history) = 2
        /\ Len(gwReq[r2].history) = 4
        /\ conversations["k1"].message_count = 4

(***************************************************************************)
(* C18                                                                     *)
(***************************************************************************)

\* A call of calculateQualificationScore that has returned.
Scored ==
    applied.fn = "calculateQualificationScore" /\ applied.called

\* 0.3 * score + 0.5 * intent weight + 0.2 * urgency weight of one
\* classification, in thousandths.
Weighted(s) ==
    3 * s.score + 5 * intentScores(s.intent) + 2 * urgencyScores(s.urgency)

\* The sum of f over a set of indices.
RECURSIVE SumOf(_, _)
SumOf(f, D) ==
    IF D = {} THEN 0
    ELSE LET k == CHOOSE x \in D : TRUE IN f[k] + SumOf(f, D \ {k})

\* clamp(x, lo, hi)
Clamp(x, lo, hi) == IF x < lo THEN lo ELSE IF x > hi THEN hi ELSE x

\* C18: calculateQualificationScore returns 0.5 for the empty history and
\* otherwise the weighted sum 0.3 * mean(score) + 0.5 * mean(intent weight)
\* + 0.2 * mean(urgency weight) clamped to [0, 1], an unknown intent or
\* urgency weighing 0.5; the result is in [0, 1]; it is 1.0 for the single
\* classification {1, purchase, high} and 0.26 for {0, general, low}.
C18_QualificationScoreFormula ==
    Scored =>
        LET h == applied.arg
            n == Len(h)
            res == applied.result
            total == SumOf([k \in 1..n |-> Weighted(h[k])], 1..n)
        IN /\ n = 0 => res = [num |-> 500, den |-> 1]
           /\ n > 0 => res.num * n = Clamp(total, 0, 1000 * n) * res.den
           /\ res.den > 0
           /\ 0 <= res.num /\ res.num <= 1000 * res.den
           /\ \A k \in 1..n :
                 /\ h[k].intent = "spam" => intentScores(h[k].intent) = 50
                 /\ h[k].urgency = "asap" => urgencyScores(h[k].urgency) = 50
           /\ h = << [score |-> 100, intent |-> "purchase", urgency |-> "high",
                      keywords |-> << >>] >>
                 => res = [num |-> 1000, den |-> 1]
           /\ h = << [score |-> 0, intent |-> "general", urgency |-> "low",
                      keywords |-> << >>] >>
                 => res = [num |-> 260, den |-> 1]

\* The score of a history of two classifications, one of them with an
\* unknown intent, that is neither 0 nor 1.
C18_Witness ==
    /\ Scored
    /\ Len(applied.arg) = 2
    /\ applied.arg[1].intent = "spam"
    /\ applied.arg[2].intent = "purchase"
    /\ applied.result.num > 0
    /\ applied.result.num < 1000 * applied.result.den

(***************************************************************************)
(* C19                                                                     *)
(***************************************************************************)

\* A call of analyzeSentiment that has returned.
Analyzed == applied.fn = "analyzeSentiment" /\ applied.called

Rated == applied.fn = "calculateConfidence" /\ applied.called

\* "I'm interested, sign me up!" and "no, not interested"
SignMeUp ==
    <<"I", "'", "m", " ", "i", "n", "t", "e", "r", "e", "s", "t", "e", "d",
      ",", " ", "s", "i", "g", "n", " ", "m", "e", " ", "u", "p", "!">>
NotInterested ==
    <<"n", "o", ",", " ", "n", "o", "t", " ", "i", "n", "t", "e", "r", "e",
      "s", "t", "e", "d">>

\* The keywords of a list that occur in the transcript whatever the case
\* of its letters.
Hits(keywords, transcript) ==
    {k \in keywords : Includes(ToLowerCase(transcript), k)}

\* clamp(0.5 + 0.1 * P - 0.15 * N, 0, 1), in hundredths.
ConfidenceFormula(transcript) ==
    Clamp(50 + 10 * Cardinality(Hits(positiveKeywords, transcript))
             - 15 * Cardinality(Hits(negativeKeywords, transcript)), 0, 100)

\* C20 as stated: the confidence is clamp(0.5 + 0.1 * P - 0.15 * N, 0, 1);
\* "I'm interested, sign me up!" is qualified with confidence 0.7 after two
\* positive hits, and "no, not interested" has confidence 0.
C20_ConfidenceWithSpecCases ==
    Rated =>
        /\ applied.result = ConfidenceFormula(applied.arg)
        /\ applied.arg = SignMeUp =>
              /\ checkQualification(applied.arg)
              /\ Cardinality(Hits(positiveKeywords, applied.arg)) = 2
              /\ applied.result = 70
        /\ applied.arg = NotInterested => applied.result = 0

\* C20, amended: the confidence is clamp(0.5 + 0.1 * P - 0.15 * N, 0, 1);
\* "I'm interested, sign me up!" is qualified with confidence 0.6 after its
\* one positive hit (interested), and "no, not interested" has confidence
\* 0.3 after one positive hit (interested) and two negative hits (no, not
\* interested).
C20_ConfidenceFormula ==
    Rated =>
        /\ applied.result = ConfidenceFormula(applied.arg)
        /\ applied.arg = SignMeUp =>
              /\ checkQualification(applied.arg)
              /\ Hits(positiveKeywords, applied.arg) = {KwInterested}
              /\ Hits(negativeKeywords, applied.arg) = {}
              /\ applied.result = 60
        /\ applied.arg = NotInterested =>
              /\ Hits(positiveKeywords, applied.arg) = {KwInterested}
              /\ Hits(negativeKeywords, applied.arg) = {KwNo, KwNotInterested}
              /\ applied.result = 30

\* The confidence of a transcript with capital letters, four positive and
\* no negative keywords has been computed.
C20_Witness ==
    /\ Rated
    /\ applied.arg # ToLowerCase(applied.arg)
    /\ Cardinality(Hits(positiveKeywords, applied.arg)) >= 4
    /\ Hits(negativeKeywords, applied.arg) = {}
    /\ applied.result >= 90

(***************************************************************************)
(* C24                                                                     *)
(***************************************************************************)

\* The step is a run of the limiter; its decision is the last of rlHist'.
Limited == Len(rlHist') = Len(rlHist) + 1

\* C24: every run of the limiter, admitted or rejected, leaves its key's
\* count one above the count of the window it belongs to (the stored count
\* of an unexpired window, 0 for a window that starts with the request),
\* keeps the resetTime of an unexpired window, and changes no other key's
\* entry.
C24_RequestCountsOnceKeepsWindow ==
    [][Limited =>
          LET decision == rlHist'[Len(rlHist')]
              key == decision.key
              live == key \in DOMAIN rateLimitStore
                         /\ ~(rateLimitStore[key].resetTime < now)
          IN /\ DOMAIN rateLimitStore' = DOMAIN rateLimitStore \cup {key}
             /\ \A k \in DOMAIN rateLimitStore \ {key} :
                   rateLimitStore'[k] = rateLimitStore[k]
             /\ live =>
                   /\ rateLimitStore'[key].count = rateLimitStore[key].count + 1
                   /\ rateLimitStore'[key].resetTime = rateLimitStore[key].resetTime
             /\ ~live =>
                   /\ rateLimitStore'[key].count = 1
                   /\ rateLimitStore'[key].resetTime = now + WindowMs
             /\ decision.status = 429 <=> rateLimitStore'[key].count > MaxRequests]_vars

\* A second rejected attempt has been counted in its unexpired window.
C24_Witness ==
    \E i \in DOMAIN rlHist :
        /\ rlHist[i].status = 429
        /\ ~rlHist[i].fresh
        /\ rlHist[i].count = MaxRequests + 2
        /\ rateLimitStore[rlHist[i].key].count = MaxRequests + 2
        /\ rateLimitStore[rlHist[i].key].resetTime = rlHist[i].resetTime

(***************************************************************************)
(* C23                                                                     *)
(***************************************************************************)

\* Delivery r takes the step.
Moves(r) == whReq'[r] # whReq[r]

\* The status each type of call event sets.
StatusSetBy(type) ==
    CASE type = "call.started" -> "in_progress"
      [] type = "call.ended" -> "answered"
      [] type = "call.failed" -> "missed"

\* The row after a call event: the status of the type and, for call.ended,
\* the transcript, the estimated duration and the recording URL the event
\* carries.
RowAfter(row, e) ==
    [status |-> StatusSetBy(e.type),
     transcript |-> IF e.type = "call.ended" /\ e.call.transcript # NoText
                    THEN e.call.transcript ELSE row.transcript,
     duration |-> IF e.type = "call.ended" /\ e.call.cost \notin {NoNumber, 0}
                  THEN e.call.cost * 60 ELSE row.duration,
     audio_url |-> IF e.type = "call.ended" /\ e.call.recordingUrl # None
                   THEN e.call.recordingUrl ELSE row.audio_url]

\* C23: a step changes a CallRecord only when a call.started, call.ended or
\* call.failed delivery's updateCall returns, and then to in_progress,
\* answered (with the event's transcript, estimated duration and recording
\* URL) or missed; only a call.failed delivery goes on to the operator error
\* notification and only a call.ended delivery creates a Lead; no step of a
\* transcript event or of an event of another type changes a CallRecord or
\* the leads.
C23_StatusChangesByEventType ==
    [][\A r \in WebhookIds :
          (Moves(r) /\ whReq[r].pc # "idle") =>
            LET e == Event(whReq[r].ev)
            IN /\ calls' # calls =>
                    /\ whReq[r].pc = "updateCall"
                    /\ e.type \in {"call.started", "call.ended", "call.failed"}
                    /\ calls' = [calls EXCEPT ![e.call.id] = RowAfter(@, e)]
               /\ leads' # leads => e.type = "call.ended"
               /\ telegramSent'["error"] # telegramSent["error"] =>
                    e.type = "call.failed" /\ whReq[r].pc = "notifyError"
               /\ whReq'[r].pc = "notifyError" =>
                    e.type = "call.failed" /\ whReq[r].pc = "updateCall"
               /\ e.type \notin {"call.started", "call.ended", "call.failed"} =>
                    /\ calls' = calls
                    /\ leads' = leads
                    /\ whReq'[r].pc \in {"save", "mark", "done"}]_vars

\* A call.failed delivery has set the status to missed and its error
\* notification has been sent, and a transcript event has been answered.
C23_Witness ==
    /\ calls["c1"].status = "missed"
    /\ telegramSent["error"] = 1
    /\ \E r \in WebhookIds :
          /\ whReq[r].pc = "done"
          /\ Event(whReq[r].ev).type = "transcript"

(***************************************************************************)
(* C25                                                                     *)
(***************************************************************************)

\* The lead is qualified and has a name and an email.
Payable(lead) ==
    lead.is_qualified /\ Truthy(lead.name) /\ Truthy(lead.email)

\* The positions of a delivery between the request for a payment link and
\* the end of extractAndSaveLead.
LinkPcs == {"paymentLink", "updatePayment", "notifyPayment"}

\* C25: a delivery asks for a payment link only for a lead that is
\* qualified and has a name and an email; a stored lead carries a payment
\* link only if it is such a lead, and then its payment_status is pending;
\* every other lead has neither a link nor a payment status, and no
\* payment-link message is sent for it.
C25_PaymentLinkOnlyForPayableLead ==
    \A r \in WebhookIds :
        whReq[r].lead # NoRow =>
            LET lead == leads[whReq[r].lead]
            IN /\ whReq[r].pc \in LinkPcs => Payable(lead)
               /\ lead.flutterwave_payment_link # None =>
                     Payable(lead) /\ lead.payment_status = "pending"
               /\ ~Payable(lead) =>
                     /\ lead.flutterwave_payment_link = None
                     /\ lead.payment_status = None
                     /\ telegramSent["payment"] = 0

\* A lead has its payment link and the status pending.
C25_Witness ==
    \E l \in DOMAIN leads :
        /\ leads[l].flutterwave_payment_link = "link"
        /\ leads[l].payment_status = "pending"
        /\ Payable(leads[l])

(***************************************************************************)
(* C28                                                                     *)
(***************************************************************************)

\* C28: a lead has telegram_notified_at set only if its new-lead
\* notification was delivered; no lead has it set while notifications are
\* disabled or after the send failed (no new-lead message was delivered).
C28_NotifiedAtOnlyAfterDelivery ==
    \A l \in DOMAIN leads :
        leads[l].telegram_notified_at # None =>
            /\ telegramEnabled
            /\ telegramSent["lead"] >= Cardinality(
                  {k \in DOMAIN leads : leads[k].telegram_notified_at # None})

(***************************************************************************)
(* C29                                                                     *)
(***************************************************************************)

\* Delivery r, after the step, holds a call event without a call or without
\* metadata.userId.
Unowned(r) ==
    /\ whReq'[r].pc # "idle"
    /\ LET e == Event(whReq'[r].ev)
       IN /\ e.type \in {"call.started", "call.ended", "call.failed"}
          /\ e.call = NoCall \/ e.call.userId = None

\* No step of such a delivery changes a CallRecord, a Lead or the messages
\* sent.
UnownedChangesNothing(r) ==
    /\ calls' = calls
    /\ leads' = leads
    /\ telegramSent' = telegramSent
    /\ whReq'[r].pc \in {"save", "mark", "done"}
    /\ whReq'[r].lead = NoRow

\* C29 as stated: a call event without a call or without metadata.userId
\* changes no CallRecord, creates no Lead and sends no notification, and
\* when it is answered it is answered with 200 and stored with
\* processed = true.
C29_UnownedEventStoredProcessed ==
    [][\A r \in WebhookIds :
          (Moves(r) /\ Unowned(r)) =>
            /\ UnownedChangesNothing(r)
            /\ whReq'[r].pc = "done" =>
                  /\ whReq'[r].status = 200
                  /\ r \in DOMAIN webhookEvents'
                  /\ webhookEvents'[r].processed]_vars

\* C29, amended: a call event without a call or without metadata.userId
\* changes no CallRecord, creates no Lead and sends no notification, and
\* when it is answered it is answered with 200; it is stored with
\* processed = true when the insert of the event and the update that marks
\* it both succeeded: a failed insert leaves no row and no update, a failed
\* update leaves the row with processed = false.
C29_UnownedEventChangesNothing ==
    [][\A r \in WebhookIds :
          (Moves(r) /\ Unowned(r)) =>
            /\ UnownedChangesNothing(r)
            /\ whReq'[r].pc = "done" =>
                  /\ whReq'[r].status = 200
                  /\ r \notin DOMAIN webhookEvents' => whReq'[r].markCalls = 0
                  /\ r \in DOMAIN webhookEvents' =>
                        /\ whReq'[r].markCalls = 1
                        /\ webhookEvents'[r].processed
                              <=> webhookEvents'[r].marks = 1]_vars

\* The call.ended event of a demo call, which has a transcript, has been
\* answered with 200 and stored with processed = true; no record has
\* changed.
C29_Witness ==
    \E r \in WebhookIds :
        /\ whReq[r].pc = "done"
        /\ whReq[r].ev = "endedDemo"
        /\ whReq[r].status = 200
        /\ r \in DOMAIN webhookEvents
        /\ webhookEvents[r].processed
        /\ calls = [c \in CallIds |-> NewCallRow]
        /\ leads = << >>

(***************************************************************************)
(* C26                                                                     *)
(***************************************************************************)

\* The POST /call requests of user u for which the provider has initiated a
\* call.
Initiated(u) ==
    { r \in GwIds :
        /\ gwReq[r].route = "POST /call"
        /\ gwReq[r].user = u
        /\ "provider" \in gwReq[r].effects
        /\ \/ gwReq[r].pc \in {"saveCall", "decrement"}
           \/ gwReq[r].pc = "done" /\ gwReq[r].status = 200 }

\* C26: in every interleaving of the POST /call requests of one user, the
\* number of provider calls initiated is at most the quota the user had
\* before the requests.
C26_CallsWithinInitialQuota ==
    \A u \in DOMAIN profiles :
        Cardinality(Initiated(u)) <= MathMax(quota0[u], 0)

(***************************************************************************)
(* C27                                                                     *)
(***************************************************************************)

\* Turn r has completed and its conversation has been written back.
TurnStored(r) ==
    /\ gwReq[r].route = "POST /chat"
    /\ gwReq[r].pc = "done"
    /\ "conversation" \in gwReq[r].effects

\* The places in the stored messages at which the message pair of q stands.
PairAt(messages, q) ==
    { i \in 1..(Len(messages) - 1) : SubSeq(messages, i, i + 1) = NewMessages(q) }

\* C27: when two chat turns on one conversationId have both completed and
\* stored, in whatever way their steps interleaved, the stored conversation
\* holds the message pair of each of them, at different places.
C27_OverlappingTurnsKeepBothPairs ==
    \A r1 \in GwIds, r2 \in GwIds :
        (/\ r1 # r2
         /\ TurnStored(r1) /\ TurnStored(r2)
         /\ ~Falsy(gwReq[r1].body.conversationId)
         /\ gwReq[r1].body.conversationId = gwReq[r2].body.conversationId) =>
            LET messages == conversations[gwReq[r1].body.conversationId].messages
            IN \E i \in PairAt(messages, gwReq[r1]), j \in PairAt(messages, gwReq[r2]) :
                  i # j

(***************************************************************************)
(* C21                                                                     *)
(***************************************************************************)

\* The sensitive names of the specification.
SensitiveNames ==
    { <<"p", "a", "s", "s", "w", "o", "r", "d">>, <<"t", "o", "k", "e", "n">>,
      <<"a", "p", "i", "K", "e", "y">>, <<"s", "e", "c", "r", "e", "t">>,
      <<"a", "u", "t", "h", "o", "r", "i", "z", "a", "t", "i", "o", "n">>,
      <<"c", "r", "e", "d", "i", "t", "C", "a", "r", "d">>, <<"s", "s", "n">>,
      <<"p", "r", "i", "v", "a", "t", "e", "K", "e", "y">> }

\* The key contains a sensitive name, in any letter case.
NamesSensitive(key) ==
    \E name \in SensitiveNames : Includes(ToLowerCase(key), ToLowerCase(name))

\* In the value v, at any depth of objects and arrays, every key that names
\* something sensitive holds "[REDACTED]".
RECURSIVE AllRedacted(_)
AllRedacted(v) ==
    \A i \in 1..Len(v.props) :
        IF NamesSensitive(v.props[i].key)
        THEN v.props[i].value = Redacted
        ELSE AllRedacted(v.props[i].value)

\* The value out has the keys of the value in, in the same objects and
\* arrays, and the values of in wherever no "[REDACTED]" stands.
RECURSIVE SameButRedacted(_, _)
SameButRedacted(in, out) ==
    \/ out = in
    \/ /\ out.kind = in.kind
       /\ out.text = in.text
       /\ Len(out.props) = Len(in.props)
       /\ \A i \in 1..Len(in.props) :
             /\ out.props[i].key = in.props[i].key
             /\ \/ out.props[i].value = Redacted
                \/ SameButRedacted(in.props[i].value, out.props[i].value)

Sanitized == applied.fn = "sanitizeData" /\ applied.called
Logged == applied.fn = "requestLogger" /\ applied.called

\* C21: sanitizeData returns its argument with "[REDACTED]" as the value of
\* every key, at any depth of objects and arrays, whose name contains a
\* sensitive name in any letter case, and with the same keys otherwise;
\* the request body and the response body in the row that requestLogger
\* hands to the log are redacted in this way, and so is its error_message;
\* {password: "secret123", nested: {apiKey: "xyz"}} becomes
\* {password: "[REDACTED]", nested: {apiKey: "[REDACTED]"}}.
C21_SensitiveValuesRedacted ==
    /\ Sanitized =>
          /\ AllRedacted(applied.result)
          /\ SameButRedacted(applied.arg, applied.result)
          /\ applied.arg = SpecExample =>
                applied.result =
                    Obj(<< Prop(<<"p", "a", "s", "s", "w", "o", "r", "d">>, Redacted),
                           Prop(<<"n", "e", "s", "t", "e", "d">>,
                                Obj(<< Prop(<<"a", "p", "i", "K", "e", "y">>, Redacted) >>)) >>)
    /\ Logged =>
          /\ AllRedacted(applied.result.request_body)
          /\ AllRedacted(applied.result.response_body)
          /\ AllRedacted(applied.result.error_message)
          /\ SameButRedacted(applied.arg.body, applied.result.request_body)
          /\ SameButRedacted(applied.arg.response, applied.result.response_body)

\* sanitizeData has redacted a key written in capitals that lies in an
\* object inside an array inside an object.
C21_Witness ==
    /\ Sanitized
    /\ applied.arg =
          Obj(<< Prop(<<"i", "t", "e", "m", "s">>,
                      Arr(<< Xyz, Obj(<< Prop(<<"P", "R", "I", "V", "A", "T", "E", "K", "E", "Y">>, Xyz) >>) >>)) >>)
    /\ applied.result # applied.arg
    /\ AllRedacted(applied.result)

(***************************************************************************)
(* C22, C30: POST /demo-call behind its limiter                            *)
(***************************************************************************)

\* The limiter's decision on request r: requests are numbered in their
\* order of arrival and the limiter runs once for each.
Decision(r) == rlHist[r]
Arrived(r) == gwReq[r].pc # "idle"

\* The phone number without spaces, dashes and parentheses.
Stripped(phoneNumber) ==
    LET kept(c) == c \notin {" ", "-", "(", ")"}
    IN SelectSeq(phoneNumber, kept)

\* ^\+?[1-9]\d{6,14}$
MatchesPhone(s) ==
    \E plus \in {0, 1} :
        /\ Len(s) - plus \in 7..15
        /\ plus = 1 => s[1] = "+"
        /\ s[plus + 1] \in {"1", "2", "3", "4", "5", "6", "7", "8", "9"}
        /\ \A k \in (plus + 2)..Len(s) : s[k] \in Digits

EmptyHoneypot(body) == body.honeypot \in {None, ""}
GoodPhone(body) ==
    body.phoneNumber # NoText /\ MatchesPhone(Stripped(body.phoneNumber))

\* The provider has accepted the call of request r.
Accepted(r) ==
    \/ gwReq[r].pc \in {"demoInsert", "demoNotify"}
    \/ gwReq[r].pc = "done" /\ gwReq[r].by = "ok"

EarlierInWindow(r) ==
    { p \in 1..(r - 1) :
        /\ Decision(p).key = Decision(r).key
        /\ Decision(p).resetTime = Decision(r).resetTime }

RejectedByValidation(p) ==
    gwReq[p].pc = "done" /\ gwReq[p].status = 400 /\ gwReq[p].by = "validation"

\* C30: every request to POST /demo-call counts against its client's limit,
\* the requests answered 400 for their honeypot or phone number included:
\* the limiter's count for a request is one more than the number of the
\* client's earlier requests in the window, and a request that follows
\* MaxRequests requests of its client in one window, all of them rejected
\* with 400, is answered 429 without reaching the handler, whether it is
\* valid or not, and no call is placed.
C30_RejectedRequestsCount ==
    \A r \in DOMAIN gwReq :
        Arrived(r) =>
            /\ Decision(r).count = Cardinality(EarlierInWindow(r)) + 1
            /\ (\E S \in SUBSET EarlierInWindow(r) :
                   /\ Cardinality(S) = MaxRequests
                   /\ \A p \in S : RejectedByValidation(p)) =>
                  /\ gwReq[r].pc = "done"
                  /\ gwReq[r].status = 429
                  /\ ~gwReq[r].ran
                  /\ gwReq[r].effects = {}

\* A valid request has been answered 429 after MaxRequests requests of its
\* client in the same window that were all rejected with 400.
C30_Witness ==
    \E r \in DOMAIN gwReq :
        /\ Arrived(r)
        /\ EmptyHoneypot(gwReq[r].body) /\ GoodPhone(gwReq[r].body)
        /\ Cardinality(EarlierInWindow(r)) = MaxRequests
        /\ \A p \in EarlierInWindow(r) : RejectedByValidation(p)
        /\ gwReq[r].status = 429
        /\ gwReq[r].effects = {}

=============================================================================
